---- MODULE Spec2Model ----
(***************************************************************************)
(* Model of the toolchain flag configuration (cc/config/global.go) and of  *)
(* the boot image configuration of package java.                           *)
(*                                                                         *)
(* Each component has its own specification over the shared variables:     *)
(*   SpecFlags    package init of the flag tables and the VariableFuncs    *)
(*   SpecSdclang  setSdclangVars and the SDClangBin / SDClangFlags funcs   *)
(*   SpecQiifa    the QIIFA_BUILD_CONFIG loader in init                    *)
(*   SpecBoot     bootImageConfig naming queries                           *)
(***************************************************************************)
EXTENDS Integers, Sequences, FiniteSets, TLC

VARIABLES
  env,                    \* process environment, variable name -> value
  files,                  \* file system, path -> contents
  vals,                   \* values returned by the pctx.VariableFuncs, by name
  panicMsg,               \* message of the panic that aborted the process
  goos,                   \* runtime.GOOS
  commonGlobalCflags,     \* slices: [arr |-> backing array, len |-> length]
  deviceGlobalCflags,
  noOverrideGlobalCflags,
  deviceGlobalLdflags,
  deviceGlobalLldflags,
  SDClang,                \* package variables set by setSdclangVars
  SDClangPath,
  ForceSDClangOff,
  sdclangPath,            \* locals of setSdclangVars captured by its closures
  sdclangAEFlag,
  sdclangFlags,
  registered,             \* names of the VariableFuncs setSdclangVars registered
  sdPc,                   \* "init", "returned" (bail-out), "done" or "panic"
  QiifaAbiLibraryList,
  qiifaPc,                \* "init" or "done"
  images,                 \* boot image configs, image name -> bootImageConfig
  moduleNameCall,         \* last moduleName call and its result
  moduleFilesCall,        \* last moduleFiles call and its result
  firstModuleNameCall,    \* last firstModuleNameOrStem call and its result
  imageLocationsCall,     \* last imageLocations call and its result
  getVariantCall,         \* last getVariant call and its result
  global,                 \* dexpreopt global config and build config inputs
  fragments,              \* bootclasspath fragment dependencies, by image name
  rules,                  \* build rules emitted through the context, in order
  errors,                 \* module errors reported through the context, in order
  missingDeps,            \* names passed to ctx.AddMissingDependencies
  outputs,                \* bootImageOutputs returned by the last build call
  built,                  \* the build calls made so far
  copyCall,               \* arguments of the copyBootJarsToPredefinedLocations call
  dexpreoptBootJars,      \* the dexpreoptBootJars singleton (receiver d)
  makeVars,               \* variables exported by MakeVars, name -> value
  singletonPc,            \* "init", "generated" or "exported"
  profileRuleCall,        \* last bootImageProfileRule call and its result
  onceCache,              \* the Once cache of the build configuration, key -> path
  onceEvals,              \* how often the function of each Once key was evaluated
  clangPathCall           \* last ClangPath call and its result

vars ==
  <<env, files, vals, panicMsg, goos, commonGlobalCflags, deviceGlobalCflags,
    noOverrideGlobalCflags, deviceGlobalLdflags, deviceGlobalLldflags, SDClang, SDClangPath, ForceSDClangOff, sdclangPath,
    sdclangAEFlag, sdclangFlags, registered, sdPc, QiifaAbiLibraryList, qiifaPc,
    images, moduleNameCall, moduleFilesCall, firstModuleNameCall,
    imageLocationsCall, getVariantCall, global, fragments, rules, errors,
    missingDeps, outputs, built, copyCall, dexpreoptBootJars, makeVars,
    singletonPc, profileRuleCall, onceCache, onceEvals, clangPathCall>>

linkVars == <<deviceGlobalLdflags, deviceGlobalLldflags>>
flagVars ==
  <<goos, commonGlobalCflags, deviceGlobalCflags, noOverrideGlobalCflags, linkVars>>
sdVars ==
  <<SDClang, SDClangPath, ForceSDClangOff, sdclangPath, sdclangAEFlag, sdclangFlags,
    registered, sdPc>>
qiifaVars == <<QiifaAbiLibraryList, qiifaPc>>
bootVars == <<images, moduleNameCall, moduleFilesCall, firstModuleNameCall>>
queryVars == <<imageLocationsCall, getVariantCall>>
ctxVars == <<rules, errors, missingDeps>>
buildVars == <<global, fragments, outputs, built>>
singletonVars == <<dexpreoptBootJars, makeVars, singletonPc>>
onceVars == <<onceCache, onceEvals, clangPathCall>>
toolVars == <<profileRuleCall, onceVars>>
extVars == <<queryVars, ctxVars, buildVars, copyCall, singletonVars, toolVars>>

\* A value that no string or list of the program equals.
None == "<none>"

NoPanic == ""

\* The components a specification does not exercise stay as the package
\* declares them.
FlagsIdle ==
  /\ goos = "linux"
  /\ commonGlobalCflags = None
  /\ deviceGlobalCflags = None
  /\ noOverrideGlobalCflags = None
  /\ deviceGlobalLdflags = None
  /\ deviceGlobalLldflags = None

SdIdle ==
  /\ SDClang = FALSE
  /\ SDClangPath = ""
  /\ ForceSDClangOff = FALSE
  /\ sdclangPath = ""
  /\ sdclangAEFlag = ""
  /\ sdclangFlags = ""
  /\ registered = {}
  /\ sdPc = "init"

QiifaIdle ==
  /\ QiifaAbiLibraryList = <<>>
  /\ qiifaPc = "init"

\* A nil *bootImageConfig.
Nil == "<nil>"

\* No call made yet.
NoCall == [image |-> Nil]

BootIdle ==
  /\ images = <<>>
  /\ moduleNameCall = NoCall
  /\ moduleFilesCall = NoCall
  /\ firstModuleNameCall = NoCall

QueryIdle ==
  /\ imageLocationsCall = NoCall
  /\ getVariantCall = NoCall

CtxIdle ==
  /\ rules = <<>>
  /\ errors = <<>>
  /\ missingDeps = <<>>

BuildIdle ==
  /\ global = <<>>
  /\ fragments = <<>>
  /\ outputs = NoCall
  /\ built = {}

SingletonIdle ==
  /\ dexpreoptBootJars = [defaultBootImage |-> Nil, otherImages |-> <<>>,
                          dexpreoptConfigForMake |-> Nil]
  /\ makeVars = <<>>
  /\ singletonPc = "init"

OnceIdle ==
  /\ onceCache = <<>>
  /\ onceEvals = <<>>
  /\ clangPathCall = NoCall

ToolIdle == profileRuleCall = NoCall /\ OnceIdle

ExtIdle ==
  QueryIdle /\ CtxIdle /\ BuildIdle /\ SingletonIdle /\ copyCall = NoCall /\ ToolIdle

(***************************************************************************)
(* Go slices and strings                                                   *)
(***************************************************************************)

\* Largest spare capacity the runtime leaves behind a grown slice.
MaxSpare == 3

\* s[0:len]
SliceSeq(s) == SubSeq(s.arr, 1, s.len)

\* A slice made by a composite literal: capacity equals length.
SliceLit(xs) == [arr |-> xs, len |-> Len(xs)]

RECURSIVE Pad(_)
Pad(n) == IF n = 0 THEN <<>> ELSE <<"">> \o Pad(n - 1)

\* A local slice value copied from a package-level slice g: it shares g's
\* backing array (base) until an append has to reallocate.
LocalOf(g) == [arr |-> g.arr, len |-> g.len, shared |-> TRUE, base |-> g.arr]

\* append(s, xs...): writes in place when the capacity allows, which is then
\* visible through every slice sharing the backing array; otherwise copies
\* into a new array that has `spare` unused slots.
GoAppend(s, xs, spare) ==
  IF s.len + Len(xs) <= Len(s.arr)
  THEN LET written == [i \in 1..Len(s.arr) |->
                        IF i > s.len /\ i <= s.len + Len(xs)
                        THEN xs[i - s.len] ELSE s.arr[i]]
       IN [arr |-> written, len |-> s.len + Len(xs), shared |-> s.shared,
           base |-> IF s.shared THEN written ELSE s.base]
  ELSE [arr |-> SliceSeq(s) \o xs \o Pad(spare), len |-> s.len + Len(xs),
        shared |-> FALSE, base |-> s.base]

\* The elements lo..hi of xs with sep between neighbours; the range is
\* split in halves so that the evaluation depth stays logarithmic in the
\* length of the flag tables.
RECURSIVE JoinFrom(_, _, _, _)
JoinFrom(xs, lo, hi, sep) ==
  IF lo > hi THEN ""
  ELSE IF lo = hi THEN xs[lo]
  ELSE JoinFrom(xs, lo, (lo + hi) \div 2, sep) \o sep
         \o JoinFrom(xs, ((lo + hi) \div 2) + 1, hi, sep)

\* strings.Join(xs, sep)
Join(xs, sep) == JoinFrom(xs, 1, Len(xs), sep)

(***************************************************************************)
(* Flag tables                                                             *)
(***************************************************************************)

\* commonGlobalCflags literal, global.go:45-131
commonGlobalCflagsTable ==
  << "-DANDROID",
     "-fmessage-length=0",
     "-W",
     "-Wall",
     "-Wno-unused",
     "-Winit-self",
     "-Wpointer-arith",
     "-Wunreachable-code-loop-increment",
     "-no-canonical-prefixes",
     "-DNDEBUG",
     "-UDEBUG",
     "-fno-exceptions",
     "-Wno-multichar",
     "-O3",
     "-g",
     "-fdebug-default-version=5",
     "-fno-strict-aliasing",
     "-Werror=date-time",
     "-Werror=pragma-pack",
     "-Werror=pragma-pack-suspicious-include",
     "-Werror=string-plus-int",
     "-Werror=unreachable-code-loop-increment",
     "-Wno-error=deprecated-declarations",
     "-D__compiler_offsetof=__builtin_offsetof",
     "-faddrsig",
     "-fcommon",
     "-Werror=int-conversion",
     "-Wno-reserved-id-macro",
     "-Wno-unused-command-line-argument",
     "-fcolor-diagnostics",
     "-Wno-sign-compare",
     "-Wno-inconsistent-missing-override",
     "-Wno-c99-designator",
     "-Wno-gnu-designator",
     "-Wno-gnu-folding-constant",
     "-Wunguarded-availability",
     "-D__ANDROID_UNAVAILABLE_SYMBOLS_ARE_WEAK__" >>
\* deviceGlobalCflags literal, global.go:142-165
deviceGlobalCflagsTable ==
  << "-ffunction-sections",
     "-fdata-sections",
     "-fno-short-enums",
     "-funwind-tables",
     "-fstack-protector-strong",
     "-Wa,--noexecstack",
     "-D_FORTIFY_SOURCE=2",
     "-Wstrict-aliasing=2",
     "-Werror=return-type",
     "-Werror=non-virtual-dtor",
     "-Werror=address",
     "-Werror=sequence-point",
     "-Werror=format-security",
     "-nostdlibinc",
     "-mllvm -regalloc-enable-advisor=release",
     "-mllvm -hot-cold-split=true" >>
\* noOverrideGlobalCflags literal, global.go:217-319
noOverrideGlobalCflagsTable ==
  << "-Werror=bool-operation",
     "-Werror=format-insufficient-args",
     "-Werror=implicit-int-float-conversion",
     "-Werror=int-in-bool-context",
     "-Werror=int-to-pointer-cast",
     "-Werror=pointer-to-int-cast",
     "-Werror=xor-used-as-pow",
     "-Wno-void-pointer-to-enum-cast",
     "-Wno-void-pointer-to-int-cast",
     "-Wno-pointer-to-int-cast",
     "-Werror=address-of-temporary",
     "-Werror=null-dereference",
     "-Werror=return-type",
     "-Wno-tautological-constant-compare",
     "-Wno-tautological-type-limit-compare",
     "-Wno-reorder-init-list",
     "-Wno-implicit-int-float-conversion",
     "-Wno-tautological-overlap-compare",
     "-Wno-deprecated-copy",
     "-Wno-range-loop-construct",
     "-Wno-zero-as-null-pointer-constant",
     "-Wno-deprecated-anon-enum-enum-conversion",
     "-Wno-pessimizing-move",
     "-Wno-non-c-typedef-for-linkage",
     "-Wno-align-mismatch",
     "-Wno-error=unused-but-set-variable",
     "-Wno-error=unused-but-set-parameter",
     "-Wno-error=deprecated-builtins",
     "-Wno-error=deprecated",
     "-Wno-error=single-bit-bitfield-constant-conversion",
     "-Wno-error=enum-constexpr-conversion",
     "-Wno-reorder-init-list",
     "-Wno-implicit-fallthrough",
     "-Wno-c99-designator",
     "-Wno-implicit-int-float-conversion",
     "-Wno-int-in-bool-context",
     "-Wno-alloca",
     "-Wno-dangling-gsl",
     "-Wno-pointer-compare",
     "-Wno-final-dtor-non-final-class",
     "-Wno-incomplete-setjmp-declaration",
     "-Wno-sizeof-array-div",
     "-Wno-xor-used-as-pow",
     "-Wno-c++17-extensions",
     "-flax-vector-conversions=all",
     "-Wno-tautological-overlap-compare",
     "-Wno-range-loop-analysis",
     "-Wno-invalid-partial-specialization",
     "-Wno-deprecated-copy",
     "-Wno-misleading-indentation",
     "-Wno-zero-as-null-pointer-constant",
     "-Wno-deprecated-enum-enum-conversion",
     "-Wno-deprecated-anon-enum-enum-conversion",
     "-Wno-bool-operation",
     "-Wno-unused-comparison",
     "-Wno-string-compare",
     "-Wno-wrong-info",
     "-Wno-unsequenced",
     "-Wno-unknown-warning-option",
     "-Wno-unused-variable",
     "-Wno-unused-value",
     "-Wno-unused-parameter",
     "-Wno-non-c-typedef-for-linkage",
     "-Wno-typedef-redefinition",
     "-Wno-format",
     "-Wno-void-pointer-to-int-cast",
     "-Wno-pointer-to-int-cast",
     "-Wno-string-concatenation",
     "-Wno-void-pointer-to-enum-cast",
     "-Wno-incompatible-pointer-types",
     "-Wno-format-invalid-specifier-fcommon",
     " -Wno-self-assign",
     "-Wno-format",
     "-Wno-unused-label",
     "-Wno-pointer-sign",
     "-Wno-writable-strings",
     "-Wno-missing-declarations",
     "-Wno-reorder-ctor",
     "-Wno-unused-function" >>
\* commonGlobalLldflags literal, global.go:167-171
commonGlobalLldflagsTable ==
  << "-fuse-ld=lld",
     "-Wl,--icf=safe",
     "-Xclang -opaque-pointers" >>

\* deviceGlobalLdflags literal, global.go:177-192
deviceGlobalLdflagsTable ==
  << "-Wl,-z,noexecstack",
     "-Wl,-z,relro",
     "-Wl,-z,now",
     "-Wl,--build-id=md5",
     "-Wl,--fatal-warnings",
     "-Wl,--no-undefined-version",
     "-Wl,--exclude-libs,libgcc.a",
     "-Wl,--exclude-libs,libgcc_stripped.a",
     "-Wl,--exclude-libs,libunwind_llvm.a",
     "-Wl,--exclude-libs,libunwind.a",
     "-Wl,-mllvm,-regalloc-enable-advisor=release" >>

\* llvmNextExtraCommonGlobalCflags literal, global.go:368-371
llvmNextExtraCommonGlobalCflags ==
  << "-Wno-error" >>

(***************************************************************************)
(* Package init and the flag VariableFuncs                                 *)
(***************************************************************************)

EnvValues == {"", "true"}

FlagEnvNames ==
  {"AUTO_ZERO_INITIALIZE", "AUTO_PATTERN_INITIALIZE", "AUTO_UNINITIALIZE",
   "USE_CCACHE", "ALLOW_UNKNOWN_WARNING_OPTION", "LLVM_NEXT"}

FlagFuncNames == {"CommonGlobalCflags", "DeviceGlobalCflags", "NoOverrideGlobalCflags"}

\* ctx.Config().IsEnvTrue(key)
IsEnvTrue(key) == env[key] = "true"

ZeroInitFlag ==
  "-ftrivial-auto-var-init=zero -enable-trivial-auto-var-init-zero-knowing-it-will-be-removed-from-clang -Wno-unused-command-line-argument"
PatternInitFlag == "-ftrivial-auto-var-init=pattern"
UninitializedFlag == "-ftrivial-auto-var-init=uninitialized"

\* Mutant: the pattern toggle is tested before the zero toggle.
AutoInitFlag_PatternFirst ==
  IF IsEnvTrue("AUTO_PATTERN_INITIALIZE") THEN PatternInitFlag
  ELSE IF IsEnvTrue("AUTO_ZERO_INITIALIZE") THEN ZeroInitFlag
  ELSE IF IsEnvTrue("AUTO_UNINITIALIZE") THEN UninitializedFlag
  ELSE ZeroInitFlag

\* The stack initialization entry chosen by the if / else-if chain.
AutoInitFlag ==
  IF IsEnvTrue("AUTO_ZERO_INITIALIZE") THEN ZeroInitFlag
  ELSE IF IsEnvTrue("AUTO_PATTERN_INITIALIZE") THEN PatternInitFlag
  ELSE IF IsEnvTrue("AUTO_UNINITIALIZE") THEN UninitializedFlag
  ELSE ZeroInitFlag

\* The state after init(): on linux one entry is appended to the literal,
\* which moves commonGlobalCflags to a grown backing array.
InitFlags ==
  /\ goos \in {"linux", "darwin"}
  /\ env \in [FlagEnvNames -> EnvValues]
  /\ \E spare \in 0..MaxSpare :
       commonGlobalCflags =
         IF goos = "linux"
         THEN LET a == GoAppend(LocalOf(SliceLit(commonGlobalCflagsTable)),
                                <<"-fdebug-prefix-map=/proc/self/cwd=">>, spare)
              IN [arr |-> a.arr, len |-> a.len]
         ELSE SliceLit(commonGlobalCflagsTable)
  /\ deviceGlobalCflags = SliceLit(deviceGlobalCflagsTable)
  /\ noOverrideGlobalCflags = SliceLit(noOverrideGlobalCflagsTable)
  /\ \E spare \in 0..MaxSpare :
       \E a \in {GoAppend(LocalOf(SliceLit(deviceGlobalLdflagsTable)),
                          commonGlobalLldflagsTable, spare)} :
         /\ deviceGlobalLldflags = [arr |-> a.arr, len |-> a.len]
         /\ deviceGlobalLdflags = [arr |-> a.base, len |-> Len(deviceGlobalLdflagsTable)]
  /\ vals = [n \in FlagFuncNames |-> None]
  /\ files = <<>>
  /\ panicMsg = NoPanic
  /\ SdIdle /\ QiifaIdle /\ BootIdle /\ ExtIdle

\* The local slice `flags` at the return of the CommonGlobalCflags func.
CommonGlobalCflagsFlags(spare) ==
  LET f0 == LocalOf(commonGlobalCflags)
      f1 == GoAppend(f0, <<AutoInitFlag>>, spare)
      f2 == IF IsEnvTrue("USE_CCACHE")
            THEN GoAppend(f1, <<"-Wno-unused-command-line-argument">>, spare)
            ELSE f1
      f3 == IF IsEnvTrue("ALLOW_UNKNOWN_WARNING_OPTION")
            THEN GoAppend(f2, <<"-Wno-error=unknown-warning-option">>, spare)
            ELSE f2
  IN f3

\* Mutant: the func assigns its local slice back to the table.
EvalCommonGlobalCflags_AssignsTable ==
  \E spare \in 0..MaxSpare :
    LET flags == CommonGlobalCflagsFlags(spare) IN
    /\ vals' = [vals EXCEPT !["CommonGlobalCflags"] = Join(SliceSeq(flags), " ")]
    /\ commonGlobalCflags' = [arr |-> flags.arr, len |-> flags.len]
    /\ UNCHANGED <<goos, deviceGlobalCflags, noOverrideGlobalCflags, linkVars>>
    /\ UNCHANGED <<env, files, panicMsg, sdVars, qiifaVars, bootVars, extVars>>

EvalCommonGlobalCflags ==
  \E spare \in 0..MaxSpare :
    LET flags == CommonGlobalCflagsFlags(spare) IN
    /\ vals' = [vals EXCEPT !["CommonGlobalCflags"] = Join(SliceSeq(flags), " ")]
    /\ commonGlobalCflags' = [commonGlobalCflags EXCEPT !.arr = flags.base]
    /\ UNCHANGED <<goos, deviceGlobalCflags, noOverrideGlobalCflags, linkVars>>
    /\ UNCHANGED <<env, files, panicMsg, sdVars, qiifaVars, bootVars, extVars>>

EvalDeviceGlobalCflags ==
  /\ vals' = [vals EXCEPT !["DeviceGlobalCflags"] = Join(SliceSeq(deviceGlobalCflags), " ")]
  /\ UNCHANGED <<goos, commonGlobalCflags, deviceGlobalCflags, noOverrideGlobalCflags,
                 linkVars>>
  /\ UNCHANGED <<env, files, panicMsg, sdVars, qiifaVars, bootVars, extVars>>

\* Mutant: the extra flags are appended whatever LLVM_NEXT is.
NoOverrideGlobalCflagsFlags_Always(spare) ==
  GoAppend(LocalOf(noOverrideGlobalCflags), llvmNextExtraCommonGlobalCflags, spare)

\* The local slice `flags` at the return of the NoOverrideGlobalCflags func.
NoOverrideGlobalCflagsFlags(spare) ==
  LET f0 == LocalOf(noOverrideGlobalCflags)
  IN IF IsEnvTrue("LLVM_NEXT")
     THEN GoAppend(f0, llvmNextExtraCommonGlobalCflags, spare)
     ELSE f0

EvalNoOverrideGlobalCflags ==
  \E spare \in 0..MaxSpare :
    LET flags == NoOverrideGlobalCflagsFlags(spare) IN
    /\ vals' = [vals EXCEPT !["NoOverrideGlobalCflags"] = Join(SliceSeq(flags), " ")]
    /\ noOverrideGlobalCflags' = [noOverrideGlobalCflags EXCEPT !.arr = flags.base]
    /\ UNCHANGED <<goos, commonGlobalCflags, deviceGlobalCflags, linkVars>>
    /\ UNCHANGED <<env, files, panicMsg, sdVars, qiifaVars, bootVars, extVars>>

NextFlags ==
  \/ EvalCommonGlobalCflags
  \/ EvalDeviceGlobalCflags
  \/ EvalNoOverrideGlobalCflags

SpecFlags == InitFlags /\ [][NextFlags]_vars

\* The value of commonGlobalCflags after init(): the literal, and on linux
\* the debug prefix map entry behind it.
CommonFlagTable ==
  IF goos = "linux"
  THEN commonGlobalCflagsTable \o <<"-fdebug-prefix-map=/proc/self/cwd=">>
  ELSE commonGlobalCflagsTable

C1_Toggle(name) == env[name] = "true"

C1_StackInit ==
  CASE C1_Toggle("AUTO_ZERO_INITIALIZE") -> ZeroInitFlag
    [] ~C1_Toggle("AUTO_ZERO_INITIALIZE") /\ C1_Toggle("AUTO_PATTERN_INITIALIZE") -> PatternInitFlag
    [] ~C1_Toggle("AUTO_ZERO_INITIALIZE") /\ ~C1_Toggle("AUTO_PATTERN_INITIALIZE")
         /\ C1_Toggle("AUTO_UNINITIALIZE") -> UninitializedFlag
    [] OTHER -> ZeroInitFlag

C1_Expected ==
  CommonFlagTable \o <<C1_StackInit>>
    \o (IF C1_Toggle("USE_CCACHE") THEN <<"-Wno-unused-command-line-argument">> ELSE <<>>)
    \o (IF C1_Toggle("ALLOW_UNKNOWN_WARNING_OPTION")
        THEN <<"-Wno-error=unknown-warning-option">> ELSE <<>>)

C1_OnlyToggle(name) ==
  \A n \in {"AUTO_ZERO_INITIALIZE", "AUTO_PATTERN_INITIALIZE", "AUTO_UNINITIALIZE"} :
    C1_Toggle(n) <=> n = name

C1_InitFlags == {ZeroInitFlag, PatternInitFlag, UninitializedFlag}

\* C1: the CommonGlobalCflags value is the common flag table, then exactly
\* one stack initialization entry (zero if AUTO_ZERO_INITIALIZE, else pattern
\* if AUTO_PATTERN_INITIALIZE, else uninitialized if AUTO_UNINITIALIZE, else
\* zero), then the ccache flag iff USE_CCACHE, then the unknown-warning flag
\* iff ALLOW_UNKNOWN_WARNING_OPTION; with exactly one toggle set the entry is
\* that toggle's flag, and the table itself holds none of the three.
C1_CommonGlobalCflagsValue ==
  vals["CommonGlobalCflags"] # None =>
    /\ vals["CommonGlobalCflags"] = Join(C1_Expected, " ")
    /\ C1_OnlyToggle("AUTO_ZERO_INITIALIZE") => C1_StackInit = ZeroInitFlag
    /\ C1_OnlyToggle("AUTO_PATTERN_INITIALIZE") => C1_StackInit = PatternInitFlag
    /\ C1_OnlyToggle("AUTO_UNINITIALIZE") => C1_StackInit = UninitializedFlag
    /\ \A i \in 1..commonGlobalCflags.len : commonGlobalCflags.arr[i] \notin C1_InitFlags

C1_Witness ==
  /\ vals["CommonGlobalCflags"] # None
  /\ C1_OnlyToggle("AUTO_PATTERN_INITIALIZE")
  /\ C1_Toggle("USE_CCACHE")
  /\ ~C1_Toggle("ALLOW_UNKNOWN_WARNING_OPTION")
  /\ vals["CommonGlobalCflags"] =
       Join(CommonFlagTable \o <<PatternInitFlag, "-Wno-unused-command-line-argument">>, " ")

\* C9: the NoOverrideGlobalCflags value is the static table verbatim unless
\* LLVM_NEXT is true, and the table followed by the single flag -Wno-error
\* when it is; the table itself does not hold -Wno-error.
C9_NoOverrideGlobalCflagsValue ==
  vals["NoOverrideGlobalCflags"] # None =>
    /\ env["LLVM_NEXT"] # "true" =>
         vals["NoOverrideGlobalCflags"] = Join(noOverrideGlobalCflagsTable, " ")
    /\ env["LLVM_NEXT"] = "true" =>
         vals["NoOverrideGlobalCflags"] =
           Join(noOverrideGlobalCflagsTable \o <<"-Wno-error">>, " ")
    /\ \A i \in 1..Len(noOverrideGlobalCflagsTable) :
         noOverrideGlobalCflagsTable[i] # "-Wno-error"
    /\ Join(noOverrideGlobalCflagsTable, " ")
         # Join(noOverrideGlobalCflagsTable \o <<"-Wno-error">>, " ")

C9_Witness ==
  /\ env["LLVM_NEXT"] = "true"
  /\ vals["NoOverrideGlobalCflags"] =
       Join(noOverrideGlobalCflagsTable, " ") \o " -Wno-error"

(***************************************************************************)
(* Files, JSON values and strconv                                          *)
(***************************************************************************)

\* File contents as seen by os.Open / os.Stat / ioutil.ReadFile.
Missing == [kind |-> "missing"]
Malformed == [kind |-> "malformed"]
JsonFile(j) == [kind |-> "json", value |-> j]

\* os.Open(path): the empty path never opens.
Open(path) == IF path = "" \/ path \notin DOMAIN files THEN Missing ELSE files[path]

\* Decoded JSON values (interface{}): bool, string, object, array.
JBool(b) == [bool |-> b]
JStr(s) == [str |-> s]
JObj(m) == [obj |-> m]
JArr == [arr |-> <<>>]
IsBool(j) == DOMAIN j = {"bool"}
IsStr(j) == DOMAIN j = {"str"}
IsObj(j) == DOMAIN j = {"obj"}

\* strconv.ParseBool(s): the values it accepts, and the value it returns
\* (false together with an error for anything else).
ParseBoolOk(s) ==
  s \in {"1", "t", "T", "TRUE", "true", "True", "0", "f", "F", "FALSE", "false", "False"}
ParseBool(s) == s \in {"1", "t", "T", "TRUE", "true", "True"}

(***************************************************************************)
(* setSdclangVars                                                          *)
(***************************************************************************)

\* The package variables and locals of setSdclangVars while it runs.
SdStart ==
  [SDClang |-> SDClang, ForceSDClangOff |-> ForceSDClangOff,
   sdclangPath |-> "", sdclangAEFlag |-> "", sdclangFlags |-> "",
   panic |-> NoPanic]

Panic(st, msg) == [st EXCEPT !.panic = msg]

\* Run the next statement unless the function already panicked.
Then(st, Op(_)) == IF st.panic # NoPanic THEN st ELSE Op(st)

\* if _, ok := devConfig[key]; ok { field = devConfig[key].(bool) }
SetBool(st, devConfig, key, field) ==
  IF key \notin DOMAIN devConfig THEN st
  ELSE IF IsBool(devConfig[key]) THEN [st EXCEPT ![field] = devConfig[key].bool]
  ELSE Panic(st, "interface conversion: interface {} is not bool")

\* if _, ok := devConfig[key]; ok { field = devConfig[key].(string) }
SetString(st, devConfig, key, field) ==
  IF key \notin DOMAIN devConfig THEN st
  ELSE IF IsStr(devConfig[key]) THEN [st EXCEPT ![field] = devConfig[key].str]
  ELSE Panic(st, "interface conversion: interface {} is not string")

\* Load AE config file and set AE flag: a file that opens but does not decode
\* into sdclangAEConfig panics.
LoadAEConfig(st) ==
  LET file == Open(env["SDCLANG_AE_CONFIG"]) IN
  IF file.kind = "missing" THEN st
  ELSE IF file.kind = "malformed" THEN Panic(st, "invalid character")
  ELSE IF ~IsObj(file.value) THEN Panic(st, "json: cannot unmarshal")
  ELSE LET aeConfig == file.value.obj IN
       IF "SDCLANG_AE_FLAG" \notin DOMAIN aeConfig THEN st
       ELSE IF IsStr(aeConfig["SDCLANG_AE_FLAG"])
            THEN [st EXCEPT !.sdclangAEFlag = aeConfig["SDCLANG_AE_FLAG"].str]
            ELSE Panic(st, "json: cannot unmarshal")

\* Mutant: a default block without SDCLANG_PATH is accepted.
DefaultBlock_PathOptional(st, config) ==
  IF "default" \notin DOMAIN config
  THEN Panic(st, "Default block is required in the SD Clang config file")
  ELSE IF ~IsObj(config["default"])
  THEN Panic(st, "interface conversion: interface {} is not map[string]interface {}")
  ELSE LET devConfig == config["default"].obj
           s1 == SetBool(st, devConfig, "FORCE_SDCLANG_OFF", "ForceSDClangOff")
           s2 == Then(s1, LAMBDA s : SetBool(s, devConfig, "SDCLANG", "SDClang"))
           s3 == Then(s2, LAMBDA s : SetString(s, devConfig, "SDCLANG_PATH", "sdclangPath"))
       IN Then(s3, LAMBDA s : SetString(s, devConfig, "SDCLANG_FLAGS", "sdclangFlags"))

\* Retrieve the default block.
DefaultBlock(st, config) ==
  IF "default" \notin DOMAIN config
  THEN Panic(st, "Default block is required in the SD Clang config file")
  ELSE IF ~IsObj(config["default"])
  THEN Panic(st, "interface conversion: interface {} is not map[string]interface {}")
  ELSE LET devConfig == config["default"].obj
           s1 == SetBool(st, devConfig, "FORCE_SDCLANG_OFF", "ForceSDClangOff")
           s2 == Then(s1, LAMBDA s : SetBool(s, devConfig, "SDCLANG", "SDClang"))
           s3 == Then(s2, LAMBDA s :
                   IF "SDCLANG_PATH" \in DOMAIN devConfig
                   THEN SetString(s, devConfig, "SDCLANG_PATH", "sdclangPath")
                   ELSE Panic(s, "SDCLANG_PATH is required in the default block"))
       IN Then(s3, LAMBDA s : SetString(s, devConfig, "SDCLANG_FLAGS", "sdclangFlags"))

\* Retrieve the device specific block if it exists in the config file.
ProductBlock(st, config) ==
  LET product == env["TARGET_BOARD_PLATFORM"] IN
  IF product \notin DOMAIN config THEN st
  ELSE IF ~IsObj(config[product])
  THEN Panic(st, "interface conversion: interface {} is not map[string]interface {}")
  ELSE LET devConfig == config[product].obj
           s1 == SetBool(st, devConfig, "SDCLANG", "SDClang")
           s2 == Then(s1, LAMBDA s : SetString(s, devConfig, "SDCLANG_PATH", "sdclangPath"))
       IN Then(s2, LAMBDA s : SetString(s, devConfig, "SDCLANG_FLAGS", "sdclangFlags"))

\* Mutant: the analysis fragment replaces the vendor flags.
StaticAnalysis_NoVendorFlags(st) ==
  IF ParseBool(env["SDCLANG_SA_ENABLED"])
  THEN [st EXCEPT !.sdclangFlags = Join(<<"--compile-and-analyze", "llvmsa">>, " ")]
  ELSE st

\* b, _ := strconv.ParseBool(sdclangSA); if b { sdclangFlags = Join(...) }
StaticAnalysis(st) ==
  IF ParseBool(env["SDCLANG_SA_ENABLED"])
  THEN [st EXCEPT !.sdclangFlags =
          Join(<<st.sdclangFlags, "--compile-and-analyze", "llvmsa">>, " ")]
  ELSE st

\* Mutant: the product block is applied before the default block.
LoadSdclangConfig_ProductFirst(st) ==
  LET file == Open(env["SDCLANG_CONFIG"]) IN
  IF file.kind = "missing" THEN st
  ELSE IF file.kind = "malformed" THEN Panic(st, "invalid character")
  ELSE IF ~IsObj(file.value)
  THEN Panic(st, "interface conversion: interface {} is not map[string]interface {}")
  ELSE LET config == file.value.obj
           s1 == ProductBlock(st, config)
           s2 == Then(s1, LAMBDA s : DefaultBlock(s, config))
       IN Then(s2, StaticAnalysis)

\* Mutant: a vendor config file that cannot be opened is fatal.
LoadSdclangConfig_MissingFatal(st) ==
  LET file == Open(env["SDCLANG_CONFIG"]) IN
  IF file.kind = "missing" THEN Panic(st, "no such file or directory")
  ELSE IF file.kind = "malformed" THEN Panic(st, "invalid character")
  ELSE IF ~IsObj(file.value)
  THEN Panic(st, "interface conversion: interface {} is not map[string]interface {}")
  ELSE LET config == file.value.obj
           s1 == DefaultBlock(st, config)
           s2 == Then(s1, LAMBDA s : ProductBlock(s, config))
       IN Then(s2, StaticAnalysis)

\* Load SD Clang config file and set SD Clang variables.
LoadSdclangConfig(st) ==
  LET file == Open(env["SDCLANG_CONFIG"]) IN
  IF file.kind = "missing" THEN st
  ELSE IF file.kind = "malformed" THEN Panic(st, "invalid character")
  ELSE IF ~IsObj(file.value)
  THEN Panic(st, "interface conversion: interface {} is not map[string]interface {}")
  ELSE LET config == file.value.obj
           s1 == DefaultBlock(st, config)
           s2 == Then(s1, LAMBDA s : ProductBlock(s, config))
       IN Then(s2, StaticAnalysis)

\* Override SDCLANG if the variable is set in the environment.
EnvOverride(st) ==
  LET sdclang == env["SDCLANG"] IN
  IF sdclang # "" /\ ParseBoolOk(sdclang)
  THEN [st EXCEPT !.SDClang = ParseBool(sdclang)]
  ELSE st

\* Mutant: the check fires when the environment path is set.
SanityCheck_EnvInverted(st) ==
  IF st.SDClang /\ st.sdclangPath = "" /\ env["SDCLANG_PATH"] # ""
  THEN Panic(st, "SDCLANG_PATH can not be empty")
  ELSE st

\* Sanity check SDCLANG_PATH.
SanityCheck(st) ==
  IF st.SDClang /\ st.sdclangPath = "" /\ env["SDCLANG_PATH"] = ""
  THEN Panic(st, "SDCLANG_PATH can not be empty")
  ELSE st

\* The body of setSdclangVars after the bail-out, up to the sanity check.
SdclangResolve ==
  LET s1 == LoadAEConfig(SdStart)
      s2 == Then(s1, LoadSdclangConfig)
      s3 == Then(s2, EnvOverride)
  IN Then(s3, SanityCheck)

SdFuncNames == {"SDClangBin", "SDClangFlags"}

\* What setSdclangVars leaves behind once the resolution st is computed: a
\* panic keeps the package variables assigned before it; otherwise the two
\* VariableFuncs are registered over the locals and SDClangPath is set.
SdclangFinish(st) ==
  /\ SDClang' = st.SDClang
  /\ ForceSDClangOff' = st.ForceSDClangOff
  /\ panicMsg' = st.panic
  /\ IF st.panic # NoPanic
     THEN /\ sdPc' = "panic"
          /\ UNCHANGED <<SDClangPath, sdclangPath, sdclangAEFlag, sdclangFlags, registered>>
     ELSE /\ sdPc' = "done"
          /\ registered' = registered \cup SdFuncNames
          /\ sdclangPath' = st.sdclangPath
          /\ sdclangAEFlag' = st.sdclangAEFlag
          /\ sdclangFlags' = st.sdclangFlags
          /\ SDClangPath' = st.sdclangPath

\* Mutant: no bail-out when SDCLANG_CONFIG is empty.
setSdclangVars_NoBailOut ==
  /\ sdPc = "init"
  /\ SdclangFinish(SdclangResolve)
  /\ UNCHANGED <<env, files, vals, flagVars, qiifaVars, bootVars, extVars>>

setSdclangVars ==
  /\ sdPc = "init"
  /\ IF env["SDCLANG_CONFIG"] = ""
     THEN /\ sdPc' = "returned"
          /\ UNCHANGED <<SDClang, SDClangPath, ForceSDClangOff, sdclangPath,
                         sdclangAEFlag, sdclangFlags, registered, panicMsg>>
     ELSE SdclangFinish(SdclangResolve)
  /\ UNCHANGED <<env, files, vals, flagVars, qiifaVars, bootVars, extVars>>

\* Mutant: the environment override of the path is ignored.
EvalSDClangBin_NoOverride ==
  /\ "SDClangBin" \in registered
  /\ vals' = [vals EXCEPT !["SDClangBin"] = sdclangPath]
  /\ UNCHANGED <<env, files, SDClang, SDClangPath, ForceSDClangOff, sdclangPath,
                 sdclangAEFlag, sdclangFlags, registered, panicMsg, sdPc>>
  /\ UNCHANGED <<flagVars, qiifaVars, bootVars, extVars>>

\* pctx.VariableFunc("SDClangBin", ...)
EvalSDClangBin ==
  /\ "SDClangBin" \in registered
  /\ vals' = [vals EXCEPT !["SDClangBin"] =
                IF env["SDCLANG_PATH"] # "" THEN env["SDCLANG_PATH"] ELSE sdclangPath]
  /\ UNCHANGED <<env, files, SDClang, SDClangPath, ForceSDClangOff, sdclangPath,
                 sdclangAEFlag, sdclangFlags, registered, panicMsg, sdPc>>
  /\ UNCHANGED <<flagVars, qiifaVars, bootVars, extVars>>

\* pctx.VariableFunc("SDClangFlags", ...)
EvalSDClangFlags ==
  /\ "SDClangFlags" \in registered
  /\ vals' = [vals EXCEPT !["SDClangFlags"] =
                IF env["SDCLANG_COMMON_FLAGS"] # "" THEN env["SDCLANG_COMMON_FLAGS"]
                ELSE sdclangAEFlag \o " " \o sdclangFlags]
  /\ UNCHANGED <<env, files, SDClang, SDClangPath, ForceSDClangOff, sdclangPath,
                 sdclangAEFlag, sdclangFlags, registered, panicMsg, sdPc>>
  /\ UNCHANGED <<flagVars, qiifaVars, bootVars, extVars>>

\* All functions from a subset of keys to the values allowed for each key:
\* the JSON objects with optional keys.
Objects(keys, ValuesOf(_)) ==
  UNION { { m \in [S -> UNION { ValuesOf(k) : k \in S }] :
              \A k \in S : m[k] \in ValuesOf(k) } : S \in SUBSET keys }

DefaultBlockValues(k) ==
  CASE k = "FORCE_SDCLANG_OFF" -> {JBool(TRUE)}
    [] k = "SDCLANG" -> {JBool(TRUE), JBool(FALSE), JStr("yes")}
    [] k = "SDCLANG_PATH" -> {JStr(""), JStr("/x")}
    [] k = "SDCLANG_FLAGS" -> {JStr("-O")}

ProductBlockValues(k) ==
  CASE k = "SDCLANG" -> {JBool(TRUE), JBool(FALSE)}
    [] k = "SDCLANG_PATH" -> {JStr("/p")}
    [] k = "SDCLANG_FLAGS" -> {JStr("-p")}

DefaultBlocks ==
  Objects({"FORCE_SDCLANG_OFF", "SDCLANG", "SDCLANG_PATH", "SDCLANG_FLAGS"}, DefaultBlockValues)

ProductBlocks == Objects({"SDCLANG", "SDCLANG_PATH", "SDCLANG_FLAGS"}, ProductBlockValues)

\* The vendor config documents: an optional default block and an optional
\* block of product "P".
SdclangConfigs ==
  {JArr}
    \cup { JObj([k \in {"default"} |-> JObj(d)]) : d \in DefaultBlocks }
    \cup { JObj([k \in {"P"} |-> JObj(p)]) : p \in ProductBlocks }
    \cup { JObj([k \in {"default", "P"} |-> IF k = "default" THEN JObj(d) ELSE JObj(p)]) :
             d \in DefaultBlocks, p \in ProductBlocks }
    \cup {JObj(<<>>)}

SdclangConfigFiles == {Missing, Malformed} \cup { JsonFile(j) : j \in SdclangConfigs }

AEConfigFiles ==
  {Malformed, JsonFile(JObj([k \in {"SDCLANG_AE_FLAG"} |-> JStr("-ae")]))}

SdEnvValues(k) ==
  CASE k = "TARGET_BOARD_PLATFORM" -> {"P", "Q"}
    [] k = "SDCLANG_AE_CONFIG" -> {"", "ae.json"}
    [] k = "SDCLANG_CONFIG" -> {"", "sdclang.json"}
    [] k = "SDCLANG_SA_ENABLED" -> {"", "true"}
    [] k = "SDCLANG" -> {"", "true", "false", "maybe"}
    [] k = "SDCLANG_PATH" -> {"", "/override"}
    [] k = "SDCLANG_COMMON_FLAGS" -> {"", "-env"}

InitSdclang ==
  /\ \E product \in SdEnvValues("TARGET_BOARD_PLATFORM"),
        aeConfigPath \in SdEnvValues("SDCLANG_AE_CONFIG"),
        sdclangConfigPath \in SdEnvValues("SDCLANG_CONFIG"),
        sdclangSA \in SdEnvValues("SDCLANG_SA_ENABLED"),
        sdclang \in SdEnvValues("SDCLANG"),
        envPath \in SdEnvValues("SDCLANG_PATH"),
        commonFlags \in SdEnvValues("SDCLANG_COMMON_FLAGS") :
       /\ env = [TARGET_BOARD_PLATFORM |-> product, SDCLANG_AE_CONFIG |-> aeConfigPath,
                 SDCLANG_CONFIG |-> sdclangConfigPath, SDCLANG_SA_ENABLED |-> sdclangSA,
                 SDCLANG |-> sdclang, SDCLANG_PATH |-> envPath,
                 SDCLANG_COMMON_FLAGS |-> commonFlags]
       /\ \E ae \in AEConfigFiles, cfg \in SdclangConfigFiles :
            files = [p \in {aeConfigPath, sdclangConfigPath} \ {""} |->
                       IF p = aeConfigPath THEN ae ELSE cfg]
  /\ vals = [n \in SdFuncNames |-> None]
  /\ panicMsg = NoPanic
  /\ SdIdle /\ FlagsIdle /\ QiifaIdle /\ BootIdle /\ ExtIdle

NextSdclang ==
  \/ setSdclangVars
  \/ EvalSDClangBin
  \/ EvalSDClangFlags

SpecSdclang == InitSdclang /\ [][NextSdclang]_vars

\* The vendor config document, when SDCLANG_CONFIG names a file holding a
\* JSON object with a well-typed default block.
SdConfigFile == Open(env["SDCLANG_CONFIG"])
SdHasObject == SdConfigFile.kind = "json" /\ IsObj(SdConfigFile.value)
SdConfig == SdConfigFile.value.obj
SdHasDefault == SdHasObject /\ "default" \in DOMAIN SdConfig
SdDefault == SdConfig["default"].obj
SdHasProduct == SdHasObject /\ env["TARGET_BOARD_PLATFORM"] \in DOMAIN SdConfig
SdProduct == SdConfig[env["TARGET_BOARD_PLATFORM"]].obj

\* The value of a key after the default block and then the product block.
SdLayered(key, unset) ==
  IF SdHasProduct /\ key \in DOMAIN SdProduct THEN SdProduct[key]
  ELSE IF SdHasDefault /\ key \in DOMAIN SdDefault THEN SdDefault[key]
  ELSE unset

SdEnvParses == env["SDCLANG"] \in {"true", "false"}

C2_Example ==
  JObj([k \in {"default", "P"} |->
          IF k = "default"
          THEN JObj([d \in {"SDCLANG_PATH", "SDCLANG"} |->
                       IF d = "SDCLANG" THEN JBool(TRUE) ELSE JStr("/x")])
          ELSE JObj([p \in {"SDCLANG"} |-> JBool(FALSE)])])

\* C2: blocks apply in the order default, product, SDCLANG environment
\* variable: a key of the product block replaces the default's value, a key
\* absent from it keeps the default's, and a parseable SDCLANG replaces
\* both.  With default {SDCLANG_PATH=/x, SDCLANG=true} and P {SDCLANG=false}
\* product P resolves to (false, /x) and an unlisted product to (true, /x).
C2_ResolutionOrder ==
  (sdPc = "done" /\ SdHasObject) =>
    /\ SDClang = IF SdEnvParses THEN env["SDCLANG"] = "true"
                 ELSE SdLayered("SDCLANG", JBool(FALSE)).bool
    /\ SDClangPath = SdLayered("SDCLANG_PATH", JStr("")).str
    /\ sdclangPath = SDClangPath
    /\ (SdConfigFile.value = C2_Example /\ ~SdEnvParses) =>
         /\ SDClangPath = "/x"
         /\ SDClang = (env["TARGET_BOARD_PLATFORM"] # "P")

C2_Witness ==
  /\ sdPc = "done"
  /\ SdHasObject
  /\ SdConfigFile.value = C2_Example
  /\ env["TARGET_BOARD_PLATFORM"] = "P"
  /\ env["SDCLANG"] = ""
  /\ SDClang = FALSE
  /\ SDClangPath = "/x"

\* C3: SDClangBin is the SDCLANG_PATH environment value whenever that is not
\* empty, whatever path the default and product blocks resolve to, and the
\* JSON-resolved path when it is unset or empty.
C3_SDClangBinOverride ==
  vals["SDClangBin"] # None =>
    /\ env["SDCLANG_PATH"] # "" => vals["SDClangBin"] = env["SDCLANG_PATH"]
    /\ env["SDCLANG_PATH"] = "" =>
         vals["SDClangBin"] = SdLayered("SDCLANG_PATH", JStr("")).str

C3_Witness ==
  /\ vals["SDClangBin"] = "/override"
  /\ SdHasDefault
  /\ SdLayered("SDCLANG_PATH", JStr("")).str = "/x"

\* C4: when the vendor config file is readable JSON and its default block is
\* missing or lacks SDCLANG_PATH, resolution panics and registers no
\* compiler path, whatever the product block and the environment hold.
C4_MissingDefaultIsFatal ==
  (sdPc # "init" /\ env["SDCLANG_CONFIG"] # "" /\ SdConfigFile.kind = "json"
     /\ (~SdHasDefault \/ ~IsObj(SdConfig["default"])
           \/ "SDCLANG_PATH" \notin DOMAIN SdDefault)) =>
    /\ sdPc = "panic"
    /\ panicMsg # NoPanic
    /\ registered = {}

C4_Witness ==
  /\ sdPc = "panic"
  /\ SdHasDefault
  /\ "SDCLANG_PATH" \notin DOMAIN SdDefault
  /\ SdHasProduct
  /\ "SDCLANG_PATH" \in DOMAIN SdProduct
  /\ env["SDCLANG_PATH"] # ""
  /\ panicMsg = "SDCLANG_PATH is required in the default block"

\* C5: resolution panics rather than finish with the override enabled, an
\* empty resolved path and an empty SDCLANG_PATH: no state that is not
\* aborted has SDClang true with both paths empty, and the sanity check
\* panics only with SDClang true and SDCLANG_PATH empty.
C5_NoEnabledEmptyPath ==
  /\ sdPc \in {"done", "returned"} =>
       ~(SDClang /\ SDClangPath = "" /\ sdclangPath = "" /\ env["SDCLANG_PATH"] = "")
  /\ panicMsg = "SDCLANG_PATH can not be empty" =>
       sdPc = "panic" /\ SDClang /\ env["SDCLANG_PATH"] = ""

C5_Witness ==
  /\ sdPc = "panic"
  /\ panicMsg = "SDCLANG_PATH can not be empty"
  /\ SdHasDefault
  /\ SdLayered("SDCLANG_PATH", JStr("")).str = ""
  /\ SDClang

\* C6: with SDCLANG_CONFIG unset or empty, resolution returns at once: no
\* panic, SDClang false, the path empty and ForceSDClangOff false, whatever
\* SDCLANG, SDCLANG_PATH, SDCLANG_AE_CONFIG, SDCLANG_SA_ENABLED and
\* TARGET_BOARD_PLATFORM are.
C6_UnsetConfigShortCircuits ==
  (env["SDCLANG_CONFIG"] = "" /\ sdPc # "init") =>
    /\ sdPc = "returned"
    /\ panicMsg = NoPanic
    /\ SDClang = FALSE
    /\ SDClangPath = ""
    /\ ForceSDClangOff = FALSE

C6_Witness ==
  /\ env["SDCLANG_CONFIG"] = ""
  /\ sdPc = "returned"
  /\ env["SDCLANG"] = "true"
  /\ env["SDCLANG_PATH"] = ""
  /\ Open(env["SDCLANG_AE_CONFIG"]).kind = "malformed"

\* The vendor config file is named but cannot be opened, and the AE config
\* is absent or decodes.
C7_MissingFile ==
  /\ sdPc # "init"
  /\ env["SDCLANG_CONFIG"] # ""
  /\ SdConfigFile.kind = "missing"
  /\ Open(env["SDCLANG_AE_CONFIG"]).kind # "malformed"

\* C7 as stated: a missing vendor config file never aborts and leaves the
\* override disabled, for every value of SDCLANG and SDCLANG_PATH.
C7_Original ==
  C7_MissingFile => (sdPc = "done" /\ panicMsg = NoPanic /\ SDClang = FALSE)

\* C7 (amended): a missing vendor config file is not an error by itself and
\* contributes nothing: the path stays empty and ForceSDClangOff false; the
\* override stays disabled unless SDCLANG parses as true, in which case it is
\* enabled when SDCLANG_PATH is set and resolution aborts when it is empty.
C7_MissingFileAmended ==
  C7_MissingFile =>
    /\ SDClangPath = "" /\ sdclangPath = "" /\ ForceSDClangOff = FALSE
    /\ env["SDCLANG"] # "true" => (sdPc = "done" /\ panicMsg = NoPanic /\ SDClang = FALSE)
    /\ (env["SDCLANG"] = "true" /\ env["SDCLANG_PATH"] # "") => (sdPc = "done" /\ SDClang)
    /\ (env["SDCLANG"] = "true" /\ env["SDCLANG_PATH"] = "") =>
         (sdPc = "panic" /\ panicMsg = "SDCLANG_PATH can not be empty")

C7_Witness ==
  /\ C7_MissingFile
  /\ sdPc = "done"
  /\ env["SDCLANG"] = "false"
  /\ env["SDCLANG_PATH"] = "/override"
  /\ SDClang = FALSE

(***************************************************************************)
(* The QIIFA ABI library list loaded by init()                             *)
(***************************************************************************)

\* Longest document body (number of tokens inside the root element).
MaxDocLen == 3

\* Tokens of a document body: a <library>name</library> element, an element
\* of another name, or a syntax error at that place.
LibraryElem(name) == [library |-> name]
OtherElem == [element |-> "other"]
SyntaxError == [syntaxError |-> TRUE]
IsLibrary(tok) == DOMAIN tok = {"library"}

XmlTokens == {LibraryElem("liba"), LibraryElem("libb"), OtherElem, SyntaxError}

XmlFile(root, body) == [kind |-> "xml", root |-> root, body |-> body]

\* A path that exists but that ioutil.ReadFile cannot read.
Unreadable == [kind |-> "unreadable"]

QiifaFiles ==
  {Missing, Unreadable}
    \cup { XmlFile(root, body) :
             root \in {"abilibs", "other"},
             body \in UNION { [1..n -> XmlTokens] : n \in 0..MaxDocLen } }

\* xml.Unmarshal(data, &qiifalibs): the Library field after decoding.  The
\* root must be <abilibs>; elements are decoded in document order and the
\* first syntax error stops decoding, keeping what was decoded before it.
RECURSIVE UnmarshalFrom(_, _, _)
UnmarshalFrom(body, i, library) ==
  IF i > Len(body) THEN library
  ELSE IF body[i] = SyntaxError THEN library
  ELSE IF IsLibrary(body[i])
       THEN UnmarshalFrom(body, i + 1, Append(library, body[i].library))
       ELSE UnmarshalFrom(body, i + 1, library)

Unmarshal(file) ==
  IF file.kind # "xml" THEN <<>>
  ELSE IF file.root # "abilibs" THEN <<>>
  ELSE UnmarshalFrom(file.body, 1, <<>>)

\* Mutant: the loop stops one entry early.
RECURSIVE AppendEach_StopEarly(_, _, _)
AppendEach_StopEarly(list, library, i) ==
  IF i >= Len(library) - 1 THEN list
  ELSE AppendEach_StopEarly(Append(list, library[i + 1]), library, i + 1)

\* for i := 0; i < len(qiifalibs.Library); i++ { append(...) }
RECURSIVE AppendEach(_, _, _)
AppendEach(list, library, i) ==
  IF i >= Len(library) THEN list
  ELSE AppendEach(Append(list, library[i + 1]), library, i + 1)

InitQiifa ==
  /\ \E qiifaBuildConfig \in {"", "qiifa.xml"} :
       /\ env = [QIIFA_BUILD_CONFIG |-> qiifaBuildConfig]
       /\ \E f \in QiifaFiles : files = [p \in {qiifaBuildConfig} \ {""} |-> f]
  /\ vals = <<>>
  /\ panicMsg = NoPanic
  /\ QiifaIdle /\ FlagsIdle /\ SdIdle /\ BootIdle /\ ExtIdle

\* os.Stat(path) fails with a not-exist error.
StatNotExist(path) == Open(path).kind = "missing"

loadQiifaAbiLibraryList ==
  /\ qiifaPc = "init"
  /\ LET qiifaBuildConfig == env["QIIFA_BUILD_CONFIG"] IN
     IF ~StatNotExist(qiifaBuildConfig)
     THEN LET library == Unmarshal(Open(qiifaBuildConfig))
          IN QiifaAbiLibraryList' = AppendEach(QiifaAbiLibraryList, library, 0)
     ELSE UNCHANGED QiifaAbiLibraryList
  /\ qiifaPc' = "done"
  /\ UNCHANGED <<env, files, vals, panicMsg, flagVars, sdVars, bootVars, extVars>>

NextQiifa ==
  \/ loadQiifaAbiLibraryList

SpecQiifa == InitQiifa /\ [][NextQiifa]_vars

QiifaFile == Open(env["QIIFA_BUILD_CONFIG"])

\* A document whose root is <abilibs> and that has no syntax error.
C8_WellFormed ==
  /\ QiifaFile.kind = "xml"
  /\ QiifaFile.root = "abilibs"
  /\ \A i \in 1..Len(QiifaFile.body) : QiifaFile.body[i] # SyntaxError

\* The <library> entries of the document, in document order.
C8_Entries == SelectSeq(QiifaFile.body, IsLibrary)

\* C8: a well-formed document with N <library> entries yields exactly those N
\* names in document order; a nonexistent path or an unset variable yields
\* the empty list; and no document, malformed ones included, raises an error
\* (a malformed one yields at most the entries before the error).
C8_AbiListLoader ==
  qiifaPc = "done" =>
    /\ panicMsg = NoPanic
    /\ C8_WellFormed =>
         /\ Len(QiifaAbiLibraryList) = Len(C8_Entries)
         /\ \A i \in 1..Len(C8_Entries) : QiifaAbiLibraryList[i] = C8_Entries[i].library
    /\ QiifaFile.kind = "missing" => QiifaAbiLibraryList = <<>>
    /\ (QiifaFile.kind = "xml" /\ ~C8_WellFormed) =>
         Len(QiifaAbiLibraryList) <= Len(C8_Entries)

C8_Witness ==
  /\ qiifaPc = "done"
  /\ C8_WellFormed
  /\ QiifaAbiLibraryList = <<"libb", "liba">>
  /\ Len(QiifaFile.body) = 3

(***************************************************************************)
(* Boot image configs: component naming                                    *)
(***************************************************************************)

\* Most libraries in one image.
MaxModules == 2

\* The (apex, jar) pairs a ConfiguredJarList is made of.
ConfiguredJars ==
  { [apex |-> a, jar |-> j] : a \in {"platform"}, j \in {"core-oj", "framework"} }

ConfiguredJarLists == UNION { [1..n -> ConfiguredJars] : n \in 0..MaxModules }

\* ConfiguredJarList.Jar(idx), ConfiguredJarList.Len()
Jar(modules, idx) == modules[idx + 1].jar
ModulesLen(modules) == Len(modules)

\* android.ModuleStem(m): the library name used in file names.
ModuleStem(m) == m

\* Mutant: the library suffix needs both a non-zero index and a base image.
moduleName_And(image, idx) ==
  LET m == Jar(image.modules, idx)
      name == image.stem
  IN IF idx # 0 /\ image.extends # Nil
     THEN name \o "-" \o ModuleStem(m)
     ELSE name

\* bootImageConfig.moduleName(ctx, idx)
moduleName(image, idx) ==
  LET m == Jar(image.modules, idx)
      name == image.stem
  IN IF idx # 0 \/ image.extends # Nil
     THEN name \o "-" \o ModuleStem(m)
     ELSE name

\* bootImageConfig.firstModuleNameOrStem(ctx)
firstModuleNameOrStem(image) ==
  IF ModulesLen(image.modules) > 0 THEN moduleName(image, 0) ELSE image.stem

\* OutputPath.Join(ctx, name)
PathJoin(dir, name) == dir \o "/" \o name

\* The inner loop of moduleFiles: one path per extension.
RECURSIVE AppendExts(_, _, _, _, _)
AppendExts(ret, dir, name, exts, j) ==
  IF j > Len(exts) THEN ret
  ELSE AppendExts(Append(ret, PathJoin(dir, name \o exts[j])), dir, name, exts, j + 1)

\* Mutant: a single-image config lists the files of all its libraries.
RECURSIVE moduleFilesFrom_NoBreak(_, _, _, _, _)
moduleFilesFrom_NoBreak(image, dir, exts, i, ret) ==
  IF i >= ModulesLen(image.modules) THEN ret
  ELSE moduleFilesFrom_NoBreak(image, dir, exts, i + 1,
                               AppendExts(ret, dir, moduleName(image, i), exts, 1))

\* The outer loop of moduleFiles from index i on; a single-image config
\* breaks after its first library.
RECURSIVE moduleFilesFrom(_, _, _, _, _)
moduleFilesFrom(image, dir, exts, i, ret) ==
  IF i >= ModulesLen(image.modules) THEN ret
  ELSE LET name == moduleName(image, i)
           ret1 == AppendExts(ret, dir, name, exts, 1)
       IN IF image.singleImage THEN ret1
          ELSE moduleFilesFrom(image, dir, exts, i + 1, ret1)

\* bootImageConfig.moduleFiles(ctx, dir, exts...)
moduleFiles(image, dir, exts) == moduleFilesFrom(image, dir, exts, 0, <<>>)

ImageNames == {"art", "boot"}

\* The extension lists moduleFiles is called with.
ExtLists == {<<".art", ".oat">>, <<".vdex">>, <<".oat">>}

\* The primary ART image and the framework image that extends it.
InitBoot ==
  /\ \E artModules \in ConfiguredJarLists, bootModules \in ConfiguredJarLists,
        artSingle \in BOOLEAN, bootSingle \in BOOLEAN :
       images =
         [n \in ImageNames |->
            IF n = "art"
            THEN [name |-> "art", stem |-> "boot", extends |-> Nil,
                  modules |-> artModules, singleImage |-> artSingle]
            ELSE [name |-> "boot", stem |-> "boot", extends |-> "art",
                  modules |-> bootModules, singleImage |-> bootSingle]]
  /\ moduleNameCall = NoCall
  /\ moduleFilesCall = NoCall
  /\ firstModuleNameCall = NoCall
  /\ env = <<>>
  /\ files = <<>>
  /\ vals = <<>>
  /\ panicMsg = NoPanic
  /\ FlagsIdle /\ SdIdle /\ QiifaIdle /\ ExtIdle

\* image.moduleName(ctx, idx) for an index of the module list.
callModuleName ==
  \E n \in ImageNames :
    \E idx \in 0..(ModulesLen(images[n].modules) - 1) :
      /\ moduleNameCall' = [image |-> n, idx |-> idx, name |-> moduleName(images[n], idx)]
      /\ UNCHANGED <<images, moduleFilesCall, firstModuleNameCall>>
      /\ UNCHANGED <<env, files, vals, panicMsg, flagVars, sdVars, qiifaVars, extVars>>

\* image.firstModuleNameOrStem(ctx)
callFirstModuleNameOrStem ==
  \E n \in ImageNames :
    /\ firstModuleNameCall' = [image |-> n, name |-> firstModuleNameOrStem(images[n])]
    /\ UNCHANGED <<images, moduleNameCall, moduleFilesCall>>
    /\ UNCHANGED <<env, files, vals, panicMsg, flagVars, sdVars, qiifaVars, extVars>>

\* image.moduleFiles(ctx, dir, exts...)
callModuleFiles ==
  \E n \in ImageNames, exts \in ExtLists :
    /\ moduleFilesCall' = [image |-> n, exts |-> exts,
                           files |-> moduleFiles(images[n], "out", exts)]
    /\ UNCHANGED <<images, moduleNameCall, firstModuleNameCall>>
    /\ UNCHANGED <<env, files, vals, panicMsg, flagVars, sdVars, qiifaVars, extVars>>

NextBoot ==
  \/ callModuleName
  \/ callFirstModuleNameOrStem
  \/ callModuleFiles

SpecBoot == InitBoot /\ [][NextBoot]_vars

\* C10: moduleName(idx) is exactly the stem for index 0 of a primary image
\* (no extends), and <stem>-<library> for every other index of a primary
\* image and every index, 0 included, of an extension image; so moduleFiles
\* names files <stem><ext> only for the first library of a primary image.
C10_ModuleName ==
  /\ moduleNameCall # NoCall =>
       LET image == images[moduleNameCall.image]
           idx == moduleNameCall.idx
           library == image.modules[idx + 1].jar
       IN /\ (idx = 0 /\ image.extends = Nil) => moduleNameCall.name = image.stem
          /\ (idx # 0 \/ image.extends # Nil) =>
               moduleNameCall.name = image.stem \o "-" \o library
  /\ moduleFilesCall # NoCall =>
       LET image == images[moduleFilesCall.image]
           exts == moduleFilesCall.exts
           out == moduleFilesCall.files
       IN \A k \in 1..Len(out) :
            (\E j \in 1..Len(exts) : out[k] = "out/" \o image.stem \o exts[j])
              <=> (image.extends = Nil /\ k <= Len(exts))

C10_Witness ==
  /\ moduleNameCall # NoCall
  /\ moduleNameCall.image = "boot"
  /\ moduleNameCall.idx = 0
  /\ moduleNameCall.name = "boot-framework"
  /\ moduleFilesCall # NoCall
  /\ moduleFilesCall.image = "art"
  /\ moduleFilesCall.files = <<"out/boot.art", "out/boot.oat", "out/boot-framework.art", "out/boot-framework.oat">>

(***************************************************************************)
(* Boot image configs with their variants: getVariant and imageLocations.  *)
(***************************************************************************)

\* Most targets one build is configured for.
MaxTargets == 3

\* A nil *bootImageVariant.
NoVariant == [image |-> Nil]

\* A nil android.Path.
NilPath == "<nil path>"

\* The targets of the build: OS and architecture type.
Targets ==
  { [os |-> "android", arch |-> "arm"],
    [os |-> "android", arch |-> "arm64"],
    [os |-> "linux_glibc", arch |-> "x86_64"] }

\* ctx.Config().Targets flattened: every target once, in any order, and
\* at least one Android target, which the package takes for granted.
TargetLists ==
  { ts \in UNION { [1..n -> Targets] : n \in 1..MaxTargets } :
      /\ \A i, j \in 1..Len(ts) : i # j => ts[i] # ts[j]
      /\ \E i \in 1..Len(ts) : ts[i].os = "android" }

\* The images of the build, primary first: the framework image extends the
\* ART image and the mainline image extends the framework image.
ImageChain == <<"art", "boot", "mainline">>

AllImageNames == { ImageChain[i] : i \in 1..Len(ImageChain) }

\* A path is the sequence of its components; String() joins them.
PathString(p) == Join(p, "/")

\* dexpreopt.PathToLocation / PathStringToLocation: the path without its
\* architecture directory, which is the directory of the file.
PathToLocation(path, arch) ==
  PathString(SubSeq(path, 1, Len(path) - 2) \o <<path[Len(path)]>>)

\* ConfiguredJarList.BuildPaths(ctx, dir) and DevicePaths(cfg, os): one
\* path per library, in library order.
BuildPaths(modules, dir) ==
  [i \in 1..Len(modules) |-> PathJoin(dir, ModuleStem(modules[i].jar) \o ".jar")]

DevicePaths(modules) ==
  [i \in 1..Len(modules) |->
     "/" \o (IF modules[i].apex = "platform" THEN "system/framework"
             ELSE "apex/" \o modules[i].apex \o "/javalib")
         \o "/" \o ModuleStem(modules[i].jar) \o ".jar"]

\* The target-independent part of one image config; the per-image settings
\* are its libraries, compiler filter, single-image flag, preloaded classes
\* file and profile imports.
BootImageConfigBase(n, p) ==
  [name |-> n,
   stem |-> "boot",
   extends |-> IF n = "art" THEN Nil ELSE IF n = "boot" THEN "art" ELSE "boot",
   modules |-> p.modules,
   singleImage |-> p.singleImage,
   compilerFilter |-> p.compilerFilter,
   preloadedClassesFile |-> p.preloadedClassesFile,
   profileImports |-> p.profileImports,
   dir |-> "out/" \o n,
   symbolsDir |-> "out/" \o n \o "_unstripped",
   installDir |-> IF n = "art" THEN "apex/art_boot_images/javalib"
                  ELSE "system/framework",
   zip |-> "out/" \o n \o "/" \o n \o ".zip",
   profileInstalls |-> <<>>,
   profileLicenseMetadataFile |-> NilPath,
   dexPaths |-> BuildPaths(p.modules, "out/" \o n \o "_input")]

\* One variant of an image config for one target, without what it takes
\* from its base image; the image paths are
\* <dir>/<os>/<installDir>/<arch>/<first file> on the host and
\* /<installDir>/<arch>/<first file> on the device.
BootImageVariantPaths(c, target) ==
  LET imageName == firstModuleNameOrStem(c) \o ".art"
      imageDir == PathString(<<c.dir, target.os, c.installDir, target.arch>>)
  IN [image |-> c.name,
      target |-> target,
      imagePathOnHost |-> <<c.dir, target.os, c.installDir, target.arch, imageName>>,
      imagePathOnDevice |-> <<"", c.installDir, target.arch, imageName>>,
      imagesDeps |-> moduleFiles(c, imageDir, <<".art", ".oat", ".vdex">>),
      dexLocations |-> DevicePaths(c.modules),
      installs |-> <<>>,
      vdexInstalls |-> <<>>,
      unstrippedInstalls |-> <<>>,
      licenseMetadataFile |-> NilPath]

\* What a variant takes from the images it extends, primary image first:
\* their dex jars and locations, their first image files and all their
\* image files.
RECURSIVE BaseOf(_, _, _)
BaseOf(n, params, target) ==
  LET c == BootImageConfigBase(n, params[n])
      v == BootImageVariantPaths(c, target)
  IN IF c.extends = Nil
     THEN [dexPathsDeps |-> c.dexPaths, dexLocationsDeps |-> v.dexLocations,
           baseImages |-> <<>>, baseImagesDeps |-> <<>>]
     ELSE LET up == BaseOf(c.extends, params, target)
              bc == BootImageConfigBase(c.extends, params[c.extends])
              bv == BootImageVariantPaths(bc, target)
          IN [dexPathsDeps |-> up.dexPathsDeps \o c.dexPaths,
              dexLocationsDeps |-> up.dexLocationsDeps \o v.dexLocations,
              baseImages |-> Append(up.baseImages, bv.imagePathOnHost),
              baseImagesDeps |-> up.baseImagesDeps \o bv.imagesDeps]

\* genBootImageConfigs: every image gets one variant per target, in the
\* order of the targets.
genBootImageConfigs(names, params, targets) ==
  [n \in names |->
     LET c == BootImageConfigBase(n, params[n])
     IN [name |-> c.name, stem |-> c.stem, extends |-> c.extends,
         modules |-> c.modules, singleImage |-> c.singleImage,
         compilerFilter |-> c.compilerFilter,
         preloadedClassesFile |-> c.preloadedClassesFile,
         profileImports |-> c.profileImports,
         dir |-> c.dir, symbolsDir |-> c.symbolsDir, installDir |-> c.installDir,
         zip |-> c.zip, dexPaths |-> c.dexPaths,
         profileInstalls |-> c.profileInstalls,
         profileLicenseMetadataFile |-> c.profileLicenseMetadataFile,
         dexPathsDeps |-> BaseOf(n, params, targets[1]).dexPathsDeps,
         variants |->
           [i \in 1..Len(targets) |->
              LET v == BootImageVariantPaths(c, targets[i])
                  up == BaseOf(n, params, targets[i])
              IN [image |-> v.image, target |-> v.target,
                  imagePathOnHost |-> v.imagePathOnHost,
                  imagePathOnDevice |-> v.imagePathOnDevice,
                  imagesDeps |-> v.imagesDeps,
                  dexLocations |-> v.dexLocations,
                  dexLocationsDeps |-> up.dexLocationsDeps,
                  baseImages |-> up.baseImages,
                  baseImagesDeps |-> up.baseImagesDeps,
                  installs |-> v.installs,
                  vdexInstalls |-> v.vdexInstalls,
                  unstrippedInstalls |-> v.unstrippedInstalls,
                  licenseMetadataFile |-> v.licenseMetadataFile]]]]

\* The per-image settings of the three images but for the ART libraries.
DefaultParams(artModules) ==
  [n \in AllImageNames |->
     [modules |-> IF n = "art" THEN artModules
                  ELSE <<[apex |-> "platform", jar |-> "framework"]>>,
      singleImage |-> FALSE,
      compilerFilter |-> "speed-profile",
      preloadedClassesFile |-> "",
      profileImports |-> <<>>]]

\* Mutant: a variant of the target's OS is taken, whatever its architecture.
RECURSIVE getVariantFrom_OsOnly(_, _, _)
getVariantFrom_OsOnly(variants, target, i) ==
  IF i > Len(variants) THEN NoVariant
  ELSE IF variants[i].target.os = target.os
       THEN variants[i]
       ELSE getVariantFrom_OsOnly(variants, target, i + 1)

\* The loop of getVariant from index i on.
RECURSIVE getVariantFrom(_, _, _)
getVariantFrom(variants, target, i) ==
  IF i > Len(variants) THEN NoVariant
  ELSE IF variants[i].target.os = target.os /\ variants[i].target.arch = target.arch
       THEN variants[i]
       ELSE getVariantFrom(variants, target, i + 1)

\* bootImageConfig.getVariant(target)
getVariant(image, target) == getVariantFrom(image.variants, target, 1)

\* Mutant: the own location goes in front of the base image's locations.
RECURSIVE imageLocations_OwnFirst(_)
imageLocations_OwnFirst(image) ==
  IF image = NoVariant THEN [panic |-> TRUE, host |-> <<>>, device |-> <<>>]
  ELSE
    LET config == images[image.image]
        base == IF config.extends # Nil
                THEN imageLocations_OwnFirst(getVariant(images[config.extends], image.target))
                ELSE [panic |-> FALSE, host |-> <<>>, device |-> <<>>]
    IN IF base.panic THEN base
       ELSE [panic |-> FALSE,
             host |-> <<PathToLocation(image.imagePathOnHost, image.target.arch)>>
                        \o base.host,
             device |-> <<PathToLocation(image.imagePathOnDevice, image.target.arch)>>
                          \o base.device]

\* bootImageVariant.imageLocations(); a nil receiver panics on its first
\* field access.
RECURSIVE imageLocations(_)
imageLocations(image) ==
  IF image = NoVariant THEN [panic |-> TRUE, host |-> <<>>, device |-> <<>>]
  ELSE
    LET config == images[image.image]
        base == IF config.extends # Nil
                THEN imageLocations(getVariant(images[config.extends], image.target))
                ELSE [panic |-> FALSE, host |-> <<>>, device |-> <<>>]
    IN IF base.panic THEN base
       ELSE [panic |-> FALSE,
             host |-> Append(base.host,
                             PathToLocation(image.imagePathOnHost, image.target.arch)),
             device |-> Append(base.device,
                               PathToLocation(image.imagePathOnDevice, image.target.arch))]

\* The three images of the chain, built for one list of targets.
InitImages ==
  /\ \E targets \in TargetLists, artModules \in ConfiguredJarLists :
       images = genBootImageConfigs(AllImageNames, DefaultParams(artModules), targets)
  /\ moduleNameCall = NoCall
  /\ moduleFilesCall = NoCall
  /\ firstModuleNameCall = NoCall
  /\ QueryIdle /\ CtxIdle /\ BuildIdle /\ SingletonIdle /\ copyCall = NoCall /\ ToolIdle
  /\ env = <<>>
  /\ files = <<>>
  /\ vals = <<>>
  /\ panicMsg = NoPanic
  /\ FlagsIdle /\ SdIdle /\ QiifaIdle

\* variant.imageLocations() for a variant of an image.
callImageLocations ==
  \E n \in AllImageNames :
    \E i \in 1..Len(images[n].variants) :
      /\ imageLocationsCall' = [image |-> n, variant |-> i,
                                result |-> imageLocations(images[n].variants[i])]
      /\ UNCHANGED <<getVariantCall, bootVars, ctxVars, buildVars, copyCall, singletonVars>>
      /\ UNCHANGED <<env, files, vals, panicMsg, flagVars, sdVars, qiifaVars, toolVars>>

\* image.getVariant(target) for any target.
callGetVariant ==
  \E n \in AllImageNames, target \in Targets :
    /\ getVariantCall' = [image |-> n, target |-> target,
                          result |-> getVariant(images[n], target)]
    /\ UNCHANGED <<imageLocationsCall, bootVars, ctxVars, buildVars, copyCall, singletonVars>>
    /\ UNCHANGED <<env, files, vals, panicMsg, flagVars, sdVars, qiifaVars, toolVars>>

NextImages == callImageLocations \/ callGetVariant

SpecImages == InitImages /\ [][NextImages]_vars

\* The images from the primary image down to image n, primary first.
RECURSIVE ChainOf(_)
ChainOf(n) ==
  IF images[n].extends = Nil THEN <<n>> ELSE Append(ChainOf(images[n].extends), n)

\* C11: imageLocations returns, in host form and in device form, the base
\* image's locations for the same target (recursively along extends)
\* followed by the image's own location last: one element for a primary
\* image, (base, own) for an extension of the primary image, and both lists
\* as long as the extends chain is deep plus one.
C11_ImageLocations ==
  imageLocationsCall # NoCall =>
    LET image == images[imageLocationsCall.image]
        variant == image.variants[imageLocationsCall.variant]
        result == imageLocationsCall.result
        chain == ChainOf(image.name)
        OwnHost(v) == PathToLocation(v.imagePathOnHost, v.target.arch)
        OwnDevice(v) == PathToLocation(v.imagePathOnDevice, v.target.arch)
    IN /\ ~result.panic
       /\ Len(result.host) = Len(chain)
       /\ Len(result.device) = Len(result.host)
       /\ \A k \in 1..Len(chain) :
            LET v == getVariant(images[chain[k]], variant.target)
            IN /\ result.host[k] = OwnHost(v)
               /\ result.device[k] = OwnDevice(v)
       /\ result.host[Len(result.host)] = OwnHost(variant)
       /\ result.device[Len(result.device)] = OwnDevice(variant)
       /\ image.extends = Nil => Len(result.host) = 1
       /\ (image.extends # Nil /\ images[image.extends].extends = Nil) =>
            /\ Len(result.host) = 2
            /\ result.host[1] =
                 OwnHost(getVariant(images[image.extends], variant.target))

C11_Witness ==
  /\ imageLocationsCall # NoCall
  /\ imageLocationsCall.image = "boot"
  /\ images["boot"].variants[imageLocationsCall.variant].target
       = [os |-> "android", arch |-> "arm64"]
  /\ images["art"].modules = <<>>
  /\ imageLocationsCall.result.host =
       <<"out/art/android/apex/art_boot_images/javalib/boot.art",
         "out/boot/android/system/framework/boot-framework.art">>
  /\ imageLocationsCall.result.device =
       <<"/apex/art_boot_images/javalib/boot.art",
         "/system/framework/boot-framework.art">>

(***************************************************************************)
(* copyBootJarsToPredefinedLocations                                       *)
(***************************************************************************)

\* The module names of the boot jars, in the order sort.Strings gives them.
SortedJarNames == <<"core-oj", "framework", "okhttp">>

JarNames == { SortedJarNames[i] : i \in 1..Len(SortedJarNames) }

\* The position of a name in the lexicographic order.
NameRank(order, s) == CHOOSE i \in 1..Len(order) : order[i] = s

\* Where a module's dex jar is built, and where the boot config expects it.
SrcPath(name) == "out/soong/.intermediates/" \o name \o "/dex/" \o name \o ".jar"
DstPath(name) == "out/soong/dexpreopt/boot_jars_input/" \o name \o ".jar"

\* The name -> path maps: functions on the names that are keys; a key may
\* be mapped to a nil path.
SrcMaps ==
  UNION { { [n \in keys |-> IF n \in set THEN SrcPath(n) ELSE NilPath] : set \in SUBSET keys }
          : keys \in SUBSET JarNames }

DstMaps ==
  UNION { { [n \in keys |-> IF n \in set THEN DstPath(n) ELSE NilPath] : set \in SUBSET keys }
          : keys \in SUBSET JarNames }

\* m[name] of a Go map: the zero value for a missing key.
Lookup(m, name) == IF name \in DOMAIN m THEN m[name] ELSE NilPath

\* sort.Strings over the names of an order.
RECURSIVE SortStrings(_, _)
SortStrings(order, xs) ==
  IF xs = <<>> THEN <<>>
  ELSE LET k == CHOOSE i \in 1..Len(xs) :
                  \A j \in 1..Len(xs) : NameRank(order, xs[i]) <= NameRank(order, xs[j])
           rest == [j \in 1..(Len(xs) - 1) |-> IF j < k THEN xs[j] ELSE xs[j + 1]]
       IN <<xs[k]>> \o SortStrings(order, rest)

\* The keys of a map in the order a range over the map happens to give.
RECURSIVE KeysOf(_)
KeysOf(S) ==
  IF S = {} THEN <<>>
  ELSE LET x == CHOOSE y \in S : TRUE IN <<x>> \o KeysOf(S \ {x})

\* android.SortedKeys(m)
SortedKeys(order, m) == SortStrings(order, KeysOf(DOMAIN m))

\* Dropping the repeats of a sorted list.
RECURSIVE Uniq(_)
Uniq(xs) ==
  IF Len(xs) <= 1 THEN xs
  ELSE IF xs[1] = xs[2] THEN Uniq(Tail(xs))
       ELSE <<xs[1]>> \o Uniq(Tail(xs))

\* android.SortedUniqueStrings(list)
SortedUniqueStrings(order, xs) == Uniq(SortStrings(order, xs))

NoDexBootJar(name) ==
  "module " \o name \o
  " does not provide a dex boot jar (see comment next to this message in Soong for details)"

NotInBootConfig(name) == "module " \o name \o " is not part of the boot configuration"

\* Mutant: a missing source jar is a module error even when missing
\* dependencies are allowed.
RECURSIVE CopyEach_MissingIsError(_, _, _, _, _, _)
CopyEach_MissingIsError(names, i, src, dst, allowMissing, ctx) ==
  IF i > Len(names) THEN ctx
  ELSE
    LET name == names[i]
        s == Lookup(src, name)
        t == Lookup(dst, name)
        ctx1 ==
          IF s = NilPath
          THEN IF ~allowMissing
               THEN [ctx EXCEPT !.errors = Append(@, NoDexBootJar(name))]
               ELSE [ctx EXCEPT !.errors = Append(@, NoDexBootJar(name)),
                                !.missingDeps = Append(@, name)]
          ELSE IF t = NilPath
               THEN [ctx EXCEPT !.errors = Append(@, NotInBootConfig(name))]
               ELSE [ctx EXCEPT !.rules =
                       Append(@, [rule |-> "Cp", input |-> s, output |-> t])]
    IN CopyEach_MissingIsError(names, i + 1, src, dst, allowMissing, ctx1)

\* Mutant: a name without a destination is copied nowhere and not reported.
RECURSIVE CopyEach_SilentSkip(_, _, _, _, _, _)
CopyEach_SilentSkip(names, i, src, dst, allowMissing, ctx) ==
  IF i > Len(names) THEN ctx
  ELSE
    LET name == names[i]
        s == Lookup(src, name)
        t == Lookup(dst, name)
        ctx1 ==
          IF s = NilPath
          THEN IF ~allowMissing
               THEN [ctx EXCEPT !.errors = Append(@, NoDexBootJar(name))]
               ELSE [ctx EXCEPT !.missingDeps = Append(@, name)]
          ELSE IF t = NilPath
               THEN ctx
               ELSE [ctx EXCEPT !.rules =
                       Append(@, [rule |-> "Cp", input |-> s, output |-> t])]
    IN CopyEach_SilentSkip(names, i + 1, src, dst, allowMissing, ctx1)

\* The loop of copyBootJarsToPredefinedLocations from index i on.
RECURSIVE CopyEach(_, _, _, _, _, _)
CopyEach(names, i, src, dst, allowMissing, ctx) ==
  IF i > Len(names) THEN ctx
  ELSE
    LET name == names[i]
        s == Lookup(src, name)
        t == Lookup(dst, name)
        ctx1 ==
          IF s = NilPath
          THEN IF ~allowMissing
               THEN [ctx EXCEPT !.errors = Append(@, NoDexBootJar(name))]
               ELSE [ctx EXCEPT !.missingDeps = Append(@, name)]
          ELSE IF t = NilPath
               THEN [ctx EXCEPT !.errors = Append(@, NotInBootConfig(name))]
               ELSE [ctx EXCEPT !.rules =
                       Append(@, [rule |-> "Cp", input |-> s, output |-> t])]
    IN CopyEach(names, i + 1, src, dst, allowMissing, ctx1)

InitCopy ==
  /\ BootIdle /\ ExtIdle
  /\ env = <<>>
  /\ files = <<>>
  /\ vals = <<>>
  /\ panicMsg = NoPanic
  /\ FlagsIdle /\ SdIdle /\ QiifaIdle

\* copyBootJarsToPredefinedLocations(ctx, srcBootDexJarsByModule,
\* dstBootJarsByModule), called once by a module.
copyBootJarsToPredefinedLocations ==
  /\ copyCall = NoCall
  /\ \E src \in SrcMaps, dst \in DstMaps, allowMissing \in BOOLEAN :
       LET names == SortedUniqueStrings(SortedJarNames,
                      SortedKeys(SortedJarNames, src) \o SortedKeys(SortedJarNames, dst))
           ctx == CopyEach(names, 1, src, dst, allowMissing,
                           [rules |-> rules, errors |-> errors, missingDeps |-> missingDeps])
       IN /\ copyCall' = [image |-> "", src |-> src, dst |-> dst,
                          allowMissing |-> allowMissing, names |-> names]
          /\ rules' = ctx.rules
          /\ errors' = ctx.errors
          /\ missingDeps' = ctx.missingDeps
  /\ UNCHANGED <<bootVars, queryVars, buildVars, singletonVars>>
  /\ UNCHANGED <<env, files, vals, panicMsg, flagVars, sdVars, qiifaVars, toolVars>>

NextCopy == copyBootJarsToPredefinedLocations

SpecCopy == InitCopy /\ [][NextCopy]_vars

\* The messages reported, and the copy rules that read or write for a name.
ErrorSet == { errors[i] : i \in 1..Len(errors) }

CopiesFor(name) ==
  { i \in 1..Len(rules) :
      rules[i].rule = "Cp" /\ (rules[i].input = SrcPath(name) \/ rules[i].output = DstPath(name)) }

\* C12: in copyBootJarsToPredefinedLocations a name with a source jar but
\* no destination gets the module error "is not part of the boot
\* configuration" and no copy rule; a name that is expected but has no
\* source jar gets, when missing dependencies are not allowed, the module
\* error "does not provide a dex boot jar" and no copy rule.
C12_CopyErrors ==
  copyCall # NoCall =>
    \A name \in JarNames :
      /\ (Lookup(copyCall.src, name) # NilPath /\ Lookup(copyCall.dst, name) = NilPath) =>
           /\ NotInBootConfig(name) \in ErrorSet
           /\ CopiesFor(name) = {}
      /\ (Lookup(copyCall.dst, name) # NilPath /\ Lookup(copyCall.src, name) = NilPath
            /\ ~copyCall.allowMissing) =>
           /\ NoDexBootJar(name) \in ErrorSet
           /\ CopiesFor(name) = {}

C12_Witness ==
  /\ copyCall # NoCall
  /\ ~copyCall.allowMissing
  /\ DOMAIN copyCall.src = {"core-oj", "okhttp"}
  /\ DOMAIN copyCall.dst = {"core-oj", "framework"}
  /\ errors = <<NoDexBootJar("framework"), NotInBootConfig("okhttp")>>
  /\ rules = <<[rule |-> "Cp", input |-> SrcPath("core-oj"), output |-> DstPath("core-oj")]>>

(***************************************************************************)
(* Build rules of the boot images: buildBootImageForOsType,                *)
(* buildBootImageVariant and buildBootImageZipInPredefinedLocation.        *)
(***************************************************************************)

\* RuleBuilderCommand arguments: a flag with its argument, "" for none.
Flag(f) == [flag |-> f, arg |-> ""]
FlagWithArg(f, a) == [flag |-> f, arg |-> a]
FlagWithList(f, list, sep) == [flag |-> f, arg |-> Join(list, sep)]
FlagForEachArg(f, list) == [i \in 1..Len(list) |-> [flag |-> f, arg |-> list[i]]]

\* One command of a rule: its arguments, inputs, implicit inputs and
\* implicit outputs.
Command(args) ==
  [args |-> args, inputs |-> <<>>, implicits |-> <<>>, implicitOutputs |-> <<>>]

\* A nil bootImageFilesByArch, and the zero bootImageOutputs of an image that
\* was not built.
NilMap == [nilmap |-> TRUE]
NoOutputs == [byArch |-> NilMap, variants |-> <<>>, profile |-> NilPath]

\* android.ArchTypeList()
ArchTypeList == <<"arm", "arm64", "riscv64", "x86", "x86_64">>

\* Target.String() and config.BuildOS
TargetString(target) == target.os \o "_" \o target.arch
BuildOS == "linux_glibc"

failureMessage ==
  "ERROR: Dex2oat failed to compile a boot image.\nIt is likely that the boot classpath is inconsistent.\nRebuild with ART_BOOT_IMAGE_EXTRA_ARGS=\"--runtime-arg -verbose:verifier\" to see verification errors."

dirtyImageFile == "frameworks/base/config/dirty-image-objects"

\* android.ExistentPathForSource(ctx, path).Valid()
ExistentPathForSource(path) == path \in DOMAIN files /\ files[path] # Missing

\* The fragments map of buildBootImageVariant: the direct dependencies with
\* the fragment tag that have an image name and are preferred, by image
\* name; a later dependency replaces an earlier one of the same name.
RECURSIVE FragmentsFrom(_, _, _)
FragmentsFrom(deps, i, acc) ==
  IF i > Len(deps) THEN acc
  ELSE LET child == deps[i]
       IN IF child.imageName # Nil /\ child.preferred
          THEN FragmentsFrom(deps, i + 1,
                 [k \in DOMAIN acc \cup {child.imageName} |->
                    IF k = child.imageName THEN child ELSE acc[k]])
          ELSE FragmentsFrom(deps, i + 1, acc)

ImportNotFound(name, from) ==
  "Boot image config '" \o name \o "' imports profile from '" \o from \o
  "', but a bootclasspath_fragment with image name '" \o from \o
  "' doesn't exist or is not added as a dependency of '" \o name \o "'"

ImportNoProfile(name, from) ==
  "Boot image config '" \o name \o "' imports profile from '" \o from \o
  "', but '" \o from \o "' doesn't provide a profile"

\* Mutant: an import without a fragment or without a profile is passed over.
RECURSIVE ProfileImportsFrom_Skip(_, _, _, _)
ProfileImportsFrom_Skip(config, frags, i, acc) ==
  IF i > Len(config.profileImports) THEN acc
  ELSE LET from == config.profileImports[i]
       IN IF from \notin DOMAIN frags \/ frags[from].profile = NilPath
          THEN ProfileImportsFrom_Skip(config, frags, i + 1, acc)
          ELSE ProfileImportsFrom_Skip(config, frags, i + 1,
                 [acc EXCEPT !.args = Append(@, FlagWithArg("--profile-file=",
                                                            frags[from].profile)),
                             !.inputs = Append(@, frags[from].profile)])

\* The loop over image.profileImports from index i on: the first import
\* without a fragment or without a profile ends it with a module error.
RECURSIVE ProfileImportsFrom(_, _, _, _)
ProfileImportsFrom(config, frags, i, acc) ==
  IF i > Len(config.profileImports) THEN acc
  ELSE LET from == config.profileImports[i]
       IN IF from \notin DOMAIN frags
          THEN [acc EXCEPT !.error = ImportNotFound(config.name, from)]
          ELSE IF frags[from].profile = NilPath
               THEN [acc EXCEPT !.error = ImportNoProfile(config.name, from)]
               ELSE ProfileImportsFrom(config, frags, i + 1,
                      [acc EXCEPT !.args = Append(@, FlagWithArg("--profile-file=",
                                                                 frags[from].profile)),
                                  !.inputs = Append(@, frags[from].profile)])

\* image.isProfileGuided()
isProfileGuided(config) == config.compilerFilter = "everything"

\* Mutant: every image gets the base address, an extension image too.
BaseImageArgs_AlwaysBase(config, image) ==
  [args |-> <<FlagWithArg("--base=", global.LibartImgDeviceBaseAddress)>>,
   inputs |-> <<>>, implicits |-> <<>>]

\* The arguments an image gets for what it builds on: an extension image
\* the boot classpath of its base images and their locations, a primary
\* image the base address.
BaseImageArgs(config, image) ==
  IF config.extends # Nil
  THEN [args |-> <<Flag("--runtime-arg"),
                   FlagWithList("-Xbootclasspath:", config.dexPathsDeps, ":"),
                   Flag("--runtime-arg"),
                   FlagWithList("-Xbootclasspath-locations:", image.dexLocationsDeps, ":"),
                   FlagWithList("--boot-image=",
                                [k \in 1..Len(image.baseImages) |->
                                   PathToLocation(image.baseImages[k], image.target.arch)],
                                ":")>>,
        inputs |-> config.dexPathsDeps,
        implicits |-> [k \in 1..Len(image.baseImages) |-> PathString(image.baseImages[k])]
                      \o image.baseImagesDeps]
  ELSE [args |-> <<FlagWithArg("--base=", global.LibartImgDeviceBaseAddress)>>,
        inputs |-> <<>>, implicits |-> <<>>]

\* Mutant: a profile-guided image never gets a compiler filter.
CompilerFilterArgs_ProfileGuided(config) ==
  IF ~isProfileGuided(config)
  THEN <<FlagWithArg("--compiler-filter=", config.compilerFilter)>>
  ELSE <<>>

\* The compiler filter argument, left to dex2oat when the image is
\* profile-guided but profiles are not generated.
CompilerFilterArgs(config) ==
  IF ~(isProfileGuided(config) /\ global.DisableGenerateProfile)
  THEN <<FlagWithArg("--compiler-filter=", config.compilerFilter)>>
  ELSE <<>>

\* RuleBuilderInstall{from, to} for the files of a directory, installed under
\* installDir with their base names: moduleFiles names the files alike in
\* both directories.
InstallsOf(config, dir, installDir, exts) ==
  LET from == moduleFiles(config, dir, exts)
      to == moduleFiles(config, installDir, exts)
  IN [k \in 1..Len(from) |-> [from |-> from[k], to |-> to[k]]]

\* buildBootImageVariant(ctx, image, profile) for variant i of config n:
\* the rules and errors of the context, the variant and the returned
\* bootImageVariantOutputs afterwards.
buildBootImageVariant(ctx, n, i, profile) ==
  LET config == images[n]
      image == config.variants[i]
      arch == image.target.arch
      os == image.target.os
      symbolsDir == PathString(<<config.symbolsDir, os, config.installDir, arch>>)
      symbolsFile == PathJoin(symbolsDir, config.stem \o ".oat")
      outputDir == PathString(<<config.dir, os, config.installDir, arch>>)
      outputPath == <<config.dir, os, config.installDir, arch, config.stem \o ".oat">>
      oatLocation == PathToLocation(outputPath, arch)
      imagePath == PathJoin(outputDir, config.stem \o ".art")
      invocationPath == PathJoin(outputDir, config.stem \o ".invocation")
      mkdir == Command(<<Flag("mkdir"), Flag("-p"), Flag(symbolsDir)>>)
      rmSymbols == Command(<<Flag("rm"), Flag("-f"),
                             Flag(PathJoin(symbolsDir, "*.art")),
                             Flag(PathJoin(symbolsDir, "*.oat")),
                             Flag(PathJoin(symbolsDir, "*.invocation"))>>)
      rmOutputs == Command(<<Flag("rm"), Flag("-f"),
                             Flag(PathJoin(outputDir, "*.art")),
                             Flag(PathJoin(outputDir, "*.oat")),
                             Flag(PathJoin(outputDir, "*.invocation"))>>)
      extraFlags == env["ART_BOOT_IMAGE_EXTRA_ARGS"]
      hasProfile == profile # NilPath
      hasDirty == ExistentPathForSource(dirtyImageFile)
      hasPreloaded == Len(config.preloadedClassesFile) > 0
                      /\ ExistentPathForSource(config.preloadedClassesFile)
      imported == ProfileImportsFrom(config, FragmentsFrom(fragments, 1, <<>>), 1,
                    [args |-> <<>>, inputs |-> <<>>, error |-> ""])
      based == BaseImageArgs(config, image)
      installDir == PathString(SubSeq(image.imagePathOnDevice, 1,
                                      Len(image.imagePathOnDevice) - 1))
      \* The arguments of the dex2oat command in the order the code adds them.
      dex2oat ==
        [args |->
           <<Flag(IF extraFlags = "" THEN "ANDROID_LOG_TAGS=\"*:e\""
                                     ELSE "ANDROID_LOG_TAGS=\"*:v\""),
             Flag(global.Dex2oat),
             Flag("--avoid-storing-invocation"),
             FlagWithArg("--write-invocation-to=", invocationPath),
             Flag("--runtime-arg"), FlagWithArg("-Xms", global.Dex2oatImageXms),
             Flag("--runtime-arg"), FlagWithArg("-Xmx", global.Dex2oatImageXmx)>>
           \o (IF hasProfile THEN <<FlagWithArg("--profile-file=", profile)>> ELSE <<>>)
           \o imported.args
           \o (IF hasDirty THEN <<FlagWithArg("--dirty-image-objects=", dirtyImageFile)>>
               ELSE <<>>)
           \o based.args
           \o (IF hasPreloaded
               THEN <<FlagWithArg("--preloaded-classes=", config.preloadedClassesFile)>>
               ELSE <<>>)
           \o FlagForEachArg("--dex-file=", config.dexPaths)
           \o FlagForEachArg("--dex-location=", image.dexLocations)
           \o <<Flag("--generate-debug-info"),
                Flag("--generate-build-id"),
                Flag("--image-format=lz4hc"),
                FlagWithArg("--oat-symbols=", symbolsFile),
                Flag("--strip"),
                FlagWithArg("--oat-file=", PathString(outputPath)),
                FlagWithArg("--oat-location=", oatLocation),
                FlagWithArg("--image=", imagePath),
                FlagWithArg("--instruction-set=", arch),
                FlagWithArg("--android-root=", global.EmptyDirectory),
                FlagWithArg("--no-inline-from=", "core-oj.jar"),
                Flag("--force-determinism"),
                Flag("--abort-on-hard-verifier-error")>>
           \o CompilerFilterArgs(config)
           \o (IF config.singleImage THEN <<Flag("--single-image")>> ELSE <<>>)
           \o (IF os = "android"
               THEN <<FlagWithArg("--instruction-set-variant=", global.CpuVariant[arch]),
                      FlagWithArg("--instruction-set-features=",
                                  global.InstructionSetFeatures[arch])>>
               ELSE <<>>)
           \o (IF global.EnableUffdGc THEN <<Flag("--runtime-arg"), Flag("-Xgc:CMC")>>
               ELSE <<>>)
           \o (IF global.BootFlags # "" THEN <<Flag(global.BootFlags)>> ELSE <<>>)
           \o (IF extraFlags # "" THEN <<Flag(extraFlags)>> ELSE <<>>)
           \o <<Flag("|| ( echo '" \o failureMessage \o "' ; false )")>>,
         inputs |->
           (IF hasProfile THEN <<profile>> ELSE <<>>)
           \o imported.inputs
           \o (IF hasDirty THEN <<dirtyImageFile>> ELSE <<>>)
           \o based.inputs
           \o (IF hasPreloaded THEN <<config.preloadedClassesFile>> ELSE <<>>)
           \o config.dexPaths,
         implicits |-> based.implicits,
         implicitOutputs |->
           <<invocationPath>>
           \o moduleFiles(config, outputDir, <<".art", ".oat">>)
           \o moduleFiles(config, outputDir, <<".vdex">>)
           \o moduleFiles(config, symbolsDir, <<".oat">>)]
      installs == InstallsOf(config, outputDir, installDir, <<".art", ".oat">>)
      vdexInstalls == InstallsOf(config, outputDir, installDir, <<".vdex">>)
      unstrippedInstalls == InstallsOf(config, symbolsDir, installDir, <<".oat">>)
      rule == [name |-> n \o "JarsDexpreopt_" \o TargetString(image.target),
               description |-> "dexpreopt " \o n \o " jars " \o arch,
               commands |-> <<mkdir, rmSymbols, rmOutputs, dex2oat>>,
               installs |-> installs]
  IN IF imported.error # ""
     THEN [rules |-> ctx.rules,
           errors |-> Append(ctx.errors, imported.error),
           variant |-> image,
           output |-> [config |-> NoVariant]]
     ELSE [rules |-> Append(ctx.rules, rule),
           errors |-> ctx.errors,
           variant |-> [image EXCEPT
                          !.installs = installs,
                          !.vdexInstalls = vdexInstalls,
                          !.unstrippedInstalls = unstrippedInstalls,
                          !.licenseMetadataFile =
                            IF global.isActiveModule THEN global.LicenseMetadataFile ELSE @],
           output |-> [config |-> [image |-> n, variant |-> i]]]

\* Mutant: a variant whose rule was not generated leaves no files behind.
appendVariant_SkipFailed(acc, i, arch, imagesDeps, out) ==
  [rules |-> out.rules,
   errors |-> out.errors,
   variants |-> [acc.variants EXCEPT ![i] = out.variant],
   imageOutputs |->
     [byArch |-> IF out.output.config = NoVariant THEN acc.imageOutputs.byArch
                 ELSE [a \in DOMAIN acc.imageOutputs.byArch \cup {arch} |->
                         IF a = arch THEN imagesDeps ELSE acc.imageOutputs.byArch[a]],
      variants |-> Append(acc.imageOutputs.variants, out.output),
      profile |-> acc.imageOutputs.profile]]

\* One pass of the loop body of buildBootImageForOsType for variant i, built
\* with outcome out: the variant's output is appended and the files of its
\* architecture recorded.
appendVariant(acc, i, arch, imagesDeps, out) ==
  [rules |-> out.rules,
   errors |-> out.errors,
   variants |-> [acc.variants EXCEPT ![i] = out.variant],
   imageOutputs |->
     [byArch |-> [a \in DOMAIN acc.imageOutputs.byArch \cup {arch} |->
                    IF a = arch THEN imagesDeps ELSE acc.imageOutputs.byArch[a]],
      variants |-> Append(acc.imageOutputs.variants, out.output),
      profile |-> acc.imageOutputs.profile]]

\* Mutant: every variant is built, whatever OS was asked for.
RECURSIVE BuildEach_AnyOs(_, _, _, _, _)
BuildEach_AnyOs(n, requiredOsType, profile, i, acc) ==
  IF i > Len(acc.variants) THEN acc
  ELSE BuildEach_AnyOs(n, requiredOsType, profile, i + 1,
         appendVariant(acc, i, acc.variants[i].target.arch, acc.variants[i].imagesDeps,
                       buildBootImageVariant(acc, n, i, profile)))

\* The loop of buildBootImageForOsType over image.variants from index i on.
RECURSIVE BuildEach(_, _, _, _, _)
BuildEach(n, requiredOsType, profile, i, acc) ==
  IF i > Len(acc.variants) THEN acc
  ELSE IF acc.variants[i].target.os = requiredOsType
       THEN BuildEach(n, requiredOsType, profile, i + 1,
              appendVariant(acc, i, acc.variants[i].target.arch,
                            acc.variants[i].imagesDeps,
                            buildBootImageVariant(acc, n, i, profile)))
       ELSE BuildEach(n, requiredOsType, profile, i + 1, acc)

\* buildBootImageForOsType(ctx, image, profile, requiredOsType): the context
\* and the variants afterwards, and the bootImageOutputs returned.
buildBootImageForOsType(n, profile, requiredOsType) ==
  BuildEach(n, requiredOsType, profile, 1,
    [rules |-> rules, errors |-> errors, variants |-> images[n].variants,
     imageOutputs |-> [byArch |-> <<>>, variants |-> <<>>, profile |-> profile]])

\* The files of all architectures, in the order of android.ArchTypeList().
RECURSIVE ZipFilesFrom(_, _)
ZipFilesFrom(filesByArch, k) ==
  IF k > Len(ArchTypeList) THEN <<>>
  ELSE (IF ArchTypeList[k] \in DOMAIN filesByArch THEN filesByArch[ArchTypeList[k]] ELSE <<>>)
       \o ZipFilesFrom(filesByArch, k + 1)

\* Mutant: a nil map is zipped like an empty one.
ZipRules_NoNilCheck(n, filesByArch) ==
  LET zipFiles == ZipFilesFrom(filesByArch, 1)
  IN <<[name |-> "zip_" \o n,
        description |-> "zip " \o n \o " image",
        commands |->
          <<[Command(<<Flag("soong_zip"),
                       FlagWithArg("-o ", images[n].zip),
                       FlagWithArg("-C ", PathJoin(images[n].dir, "android")),
                       FlagWithList("-f ", zipFiles, " -f ")>>)
             EXCEPT !.inputs = zipFiles]>>,
        installs |-> <<>>]>>

\* The rules buildBootImageZipInPredefinedLocation builds: none for a nil
\* map, else one soong_zip rule over the files of all architectures.
ZipRules(n, filesByArch) ==
  IF filesByArch = NilMap THEN <<>>
  ELSE LET zipFiles == ZipFilesFrom(filesByArch, 1)
       IN <<[name |-> "zip_" \o n,
             description |-> "zip " \o n \o " image",
             commands |->
               <<[Command(<<Flag("soong_zip"),
                            FlagWithArg("-o ", images[n].zip),
                            FlagWithArg("-C ", PathJoin(images[n].dir, "android")),
                            FlagWithList("-f ", zipFiles, " -f ")>>)
                  EXCEPT !.inputs = zipFiles]>>,
             installs |-> <<>>]>>

\* The images that are built: the primary image and its extension.
BuildImageNames == {"art", "boot"}

\* The compiler filters of the ART image and of the framework image.
CompilerFilterPairs ==
  { <<"speed-profile", "everything">>,
    <<"everything", "Everything">>,
    <<"everything", "speed-profile">> }

\* A bootclasspath fragment dependency: its image name (nil for none),
\* whether it is the preferred module, and its profile path (nil for none).
Fragment(imageName, preferred, profile) ==
  [imageName |-> imageName, preferred |-> preferred, profile |-> profile]

FragmentProfile(n) == "out/" \o n \o "/boot.prof"

\* The profile imports of the framework image with the fragment
\* dependencies of the module.
ImportScenarios ==
  { [imports |-> <<>>, deps |-> <<>>],
    [imports |-> <<"art">>, deps |-> <<Fragment("art", TRUE, FragmentProfile("art"))>>],
    [imports |-> <<"art">>, deps |-> <<>>],
    [imports |-> <<"art">>, deps |-> <<Fragment("art", FALSE, FragmentProfile("art"))>>],
    [imports |-> <<"art">>, deps |-> <<Fragment(Nil, TRUE, FragmentProfile("art"))>>],
    [imports |-> <<"art">>, deps |-> <<Fragment("art", TRUE, NilPath)>>],
    [imports |-> <<"art">>, deps |-> <<Fragment("art", TRUE, NilPath),
                                       Fragment("art", TRUE, FragmentProfile("art"))>>],
    [imports |-> <<"art", "extra">>,
     deps |-> <<Fragment("art", TRUE, FragmentProfile("art")),
                Fragment("extra", TRUE, NilPath)>>],
    [imports |-> <<"art", "extra">>,
     deps |-> <<Fragment("art", TRUE, FragmentProfile("art")),
                Fragment("extra", TRUE, FragmentProfile("extra"))>>],
    [imports |-> <<"art", "extra">>, deps |-> <<>>] }

\* The global dexpreopt config and what else the build configuration gives.
GlobalConfig(disableGenerateProfile, alt) ==
  [DisableGenerateProfile |-> disableGenerateProfile,
   EnableUffdGc |-> alt,
   BootFlags |-> IF alt THEN "--boot-flag" ELSE "",
   Dex2oat |-> "out/host/bin/dex2oatd",
   Dex2oatImageXms |-> "64m",
   Dex2oatImageXmx |-> "64m",
   EmptyDirectory |-> "out/empty",
   CpuVariant |-> [a \in {"arm", "arm64", "x86_64"} |-> "generic"],
   InstructionSetFeatures |-> [a \in {"arm", "arm64", "x86_64"} |-> "default"],
   LibartImgDeviceBaseAddress |-> "0x70000000",
   isActiveModule |-> alt,
   LicenseMetadataFile |-> "out/meta_lic"]

preloadedClasses == "frameworks/base/config/preloaded-classes"

InitBuild ==
  /\ \E targets \in TargetLists, filters \in CompilerFilterPairs,
        scenario \in ImportScenarios, disable \in BOOLEAN, alt \in BOOLEAN :
       /\ images = genBootImageConfigs(BuildImageNames,
                     [n \in BuildImageNames |->
                        [modules |-> <<[apex |-> "platform",
                                        jar |-> IF n = "art" THEN "core-oj" ELSE "framework"]>>,
                         singleImage |-> FALSE,
                         compilerFilter |-> IF n = "art" THEN filters[1] ELSE filters[2],
                         preloadedClassesFile |-> IF n = "art" THEN "" ELSE preloadedClasses,
                         profileImports |-> IF n = "art" THEN <<>> ELSE scenario.imports]],
                     targets)
       /\ fragments = scenario.deps
       /\ global = GlobalConfig(disable, alt)
       /\ env = [k \in {"ART_BOOT_IMAGE_EXTRA_ARGS"} |->
                   IF alt THEN "--runtime-arg -verbose:verifier" ELSE ""]
       /\ files = [f \in {dirtyImageFile, preloadedClasses} |->
                     IF alt THEN JsonFile(JBool(TRUE)) ELSE Missing]
  /\ outputs = [n \in BuildImageNames |-> NoOutputs]
  /\ built = {}
  /\ moduleNameCall = NoCall
  /\ moduleFilesCall = NoCall
  /\ firstModuleNameCall = NoCall
  /\ QueryIdle /\ CtxIdle /\ SingletonIdle /\ copyCall = NoCall /\ ToolIdle
  /\ vals = <<>>
  /\ panicMsg = NoPanic
  /\ FlagsIdle /\ SdIdle /\ QiifaIdle

\* The images are handled one after the other, primary image first.
CurrentImage(n) ==
  /\ n \in BuildImageNames
  /\ <<"zip", n>> \notin built
  /\ images[n].extends # Nil => <<"zip", images[n].extends>> \in built

\* buildBootImageVariantsForAndroidOs(ctx, image, profile)
buildBootImageVariantsForAndroidOs ==
  \E n \in BuildImageNames : \E profile \in {NilPath, FragmentProfile(n)} :
    /\ CurrentImage(n)
    /\ <<"android", n>> \notin built
    /\ \E r \in {buildBootImageForOsType(n, profile, "android")} :
          /\ rules' = r.rules
          /\ errors' = r.errors
          /\ images' = [images EXCEPT ![n].variants = r.variants]
          /\ outputs' = [outputs EXCEPT ![n] = r.imageOutputs]
    /\ built' = built \cup {<<"android", n>>}
    /\ UNCHANGED <<moduleNameCall, moduleFilesCall, firstModuleNameCall>>
    /\ UNCHANGED <<global, fragments, missingDeps, queryVars, copyCall, singletonVars>>
    /\ UNCHANGED <<env, files, vals, panicMsg, flagVars, sdVars, qiifaVars, toolVars>>

\* buildBootImageVariantsForBuildOs(ctx, image, profile), with the profile
\* the Android variants were built with; what it returns is dropped.
buildBootImageVariantsForBuildOs ==
  \E n \in BuildImageNames :
    /\ CurrentImage(n)
    /\ <<"android", n>> \in built
    /\ <<"host", n>> \notin built
    /\ \E r \in {buildBootImageForOsType(n, outputs[n].profile, BuildOS)} :
          /\ rules' = r.rules
          /\ errors' = r.errors
          /\ images' = [images EXCEPT ![n].variants = r.variants]
    /\ built' = built \cup {<<"host", n>>}
    /\ UNCHANGED <<moduleNameCall, moduleFilesCall, firstModuleNameCall>>
    /\ UNCHANGED <<global, fragments, outputs, missingDeps, queryVars, copyCall, singletonVars>>
    /\ UNCHANGED <<env, files, vals, panicMsg, flagVars, sdVars, qiifaVars, toolVars>>

\* buildBootImageZipInPredefinedLocation(ctx, image, filesByArch): with the
\* files of the Android variants once they are built, with nil when the
\* image files are not generated.
buildBootImageZipInPredefinedLocation ==
  \E n \in BuildImageNames :
    /\ CurrentImage(n)
    /\ \/ <<"android", n>> \notin built
       \/ <<"host", n>> \in built
    /\ rules' = rules \o ZipRules(n, outputs[n].byArch)
    /\ built' = built \cup {<<"zip", n>>}
    /\ UNCHANGED <<bootVars, global, fragments, outputs, errors, missingDeps>>
    /\ UNCHANGED <<queryVars, copyCall, singletonVars>>
    /\ UNCHANGED <<env, files, vals, panicMsg, flagVars, sdVars, qiifaVars, toolVars>>

NextBuild ==
  \/ buildBootImageVariantsForAndroidOs
  \/ buildBootImageVariantsForBuildOs
  \/ buildBootImageZipInPredefinedLocation

SpecBuild == InitBuild /\ [][NextBuild]_vars

\* The arguments of all commands of a rule.
ArgsOf(rule) ==
  UNION { { rule.commands[c].args[a] : a \in 1..Len(rule.commands[c].args) }
          : c \in 1..Len(rule.commands) }

\* The rules that run dex2oat, and those among them that write the oat file
\* of a variant.
CompileRules == { k \in 1..Len(rules) : Flag(global.Dex2oat) \in ArgsOf(rules[k]) }

OatFile(v) ==
  PathString(<<images[v.image].dir, v.target.os, images[v.image].installDir,
               v.target.arch, images[v.image].stem \o ".oat">>)

CompileRulesFor(v) ==
  { k \in CompileRules : FlagWithArg("--oat-file=", OatFile(v)) \in ArgsOf(rules[k]) }

VariantsOf(n) == { images[n].variants[i] : i \in 1..Len(images[n].variants) }

\* The image was built for this OS.
Requested(n, os) ==
  \/ os = "android" /\ <<"android", n>> \in built
  \/ os = BuildOS /\ <<"host", n>> \in built

\* The fragment a profile import resolves to is the last preferred
\* dependency of that image name; the import fails without one or when
\* that one has no profile.
ImportFails(n) ==
  \E i \in 1..Len(images[n].profileImports) :
    LET from == images[n].profileImports[i]
        matches == { k \in 1..Len(fragments) :
                       fragments[k].imageName = from /\ fragments[k].preferred }
    IN \/ matches = {}
       \/ \E k \in matches : (\A j \in matches : j <= k) /\ fragments[k].profile = NilPath

\* The Android variants of an image are those for arm and arm64.
ArmAndArm64(n) ==
  { v.target.arch : v \in { w \in VariantsOf(n) : w.target.os = "android" } }
    = {"arm", "arm64"}

AndroidCompileRules ==
  UNION { UNION { CompileRulesFor(v) : v \in { w \in VariantsOf(n) : w.target.os = "android" } }
          : n \in BuildImageNames }

\* C13 as stated: building an image for an OS type generates exactly one
\* compile command per variant of that image whose target OS is the
\* requested OS and none for variants of another OS; a primary and an
\* extension image with device variants arm and arm64 give 2 x 2 = 4
\* compile commands.
C13_Original ==
  /\ \A n \in BuildImageNames : \A v \in VariantsOf(n) :
       IF Requested(n, v.target.os)
       THEN Cardinality(CompileRulesFor(v)) = 1
       ELSE CompileRulesFor(v) = {}
  /\ ((\A n \in BuildImageNames : <<"android", n>> \in built /\ ArmAndArm64(n))
        => Cardinality(AndroidCompileRules) = 4)

\* C13 (amended): an image none of whose profile imports fails gets exactly
\* one compile command per variant whose target OS is the requested OS; an
\* image with a failing profile import gets none, and no image gets one for
\* a variant of an OS that was not requested; a primary and an extension
\* image with device variants arm and arm64 and no failing import give
\* 2 x 2 = 4 compile commands.
C13_OneCommandPerVariant ==
  /\ \A n \in BuildImageNames : \A v \in VariantsOf(n) :
       IF Requested(n, v.target.os) /\ ~ImportFails(n)
       THEN Cardinality(CompileRulesFor(v)) = 1
       ELSE CompileRulesFor(v) = {}
  /\ ((\A n \in BuildImageNames :
         <<"android", n>> \in built /\ ArmAndArm64(n) /\ ~ImportFails(n))
        => Cardinality(AndroidCompileRules) = 4)

C13_Witness ==
  /\ \A n \in BuildImageNames :
       <<"android", n>> \in built /\ ArmAndArm64(n) /\ ~ImportFails(n)
  /\ images["boot"].profileImports # <<>>
  /\ \E v \in VariantsOf("boot") : v.target.os = BuildOS /\ CompileRulesFor(v) = {}
  /\ Cardinality(AndroidCompileRules) = 4

\* The zip rules of an image, and the files the Android variants of an
\* image are predefined to have, architecture by architecture.
ZipRulesOf(n) == { k \in 1..Len(rules) : rules[k].name = "zip_" \o n }

RECURSIVE OwnFilesFrom(_, _)
OwnFilesFrom(n, k) ==
  IF k > Len(ArchTypeList) THEN <<>>
  ELSE LET vs == { v \in VariantsOf(n) :
                     v.target.os = "android" /\ v.target.arch = ArchTypeList[k] }
       IN (IF vs = {} THEN <<>> ELSE (CHOOSE v \in vs : TRUE).imagesDeps)
          \o OwnFilesFrom(n, k + 1)

FilesOfImage(n) ==
  UNION { { v.imagesDeps[j] : j \in 1..Len(v.imagesDeps) } : v \in VariantsOf(n) }

\* What the zip rule of an image bundles: its own files of every
\* architecture once, none of another image.
ZipBundlesOwnFiles(n) ==
  /\ Cardinality(ZipRulesOf(n)) = 1
  /\ \A k \in ZipRulesOf(n) :
       LET zipFiles == rules[k].commands[1].inputs
       IN /\ zipFiles = OwnFilesFrom(n, 1)
          /\ FlagWithList("-f ", zipFiles, " -f ") \in ArgsOf(rules[k])
          /\ FlagWithArg("-o ", images[n].zip) \in ArgsOf(rules[k])
          /\ \A i, j \in 1..Len(zipFiles) : i # j => zipFiles[i] # zipFiles[j]
          /\ \A i \in 1..Len(zipFiles) :
               /\ zipFiles[i] \in FilesOfImage(n)
               /\ \A o \in BuildImageNames \ {n} : zipFiles[i] \notin FilesOfImage(o)

\* C14: the zip rule of an image bundles exactly the union over the
\* architectures of that image's own output files, each architecture's
\* files once and no file of its base image or of another image, and no zip
\* rule is emitted when no outputs exist for the image, that is when the
\* map of files passed is nil or has no architecture.
C14_ZipRule ==
  \A n \in BuildImageNames :
    /\ <<"zip", n>> \notin built => ZipRulesOf(n) = {}
    /\ <<"zip", n>> \in built =>
         IF outputs[n].byArch = NilMap \/ DOMAIN outputs[n].byArch = {}
         THEN ZipRulesOf(n) = {}
         ELSE ZipBundlesOwnFiles(n)

C14_Witness ==
  /\ <<"zip", "boot">> \in built
  /\ Len(images["boot"].variants) = 3
  /\ images["boot"].variants[1].target = [os |-> "android", arch |-> "arm64"]
  /\ images["boot"].variants[2].target = [os |-> "linux_glibc", arch |-> "x86_64"]
  /\ images["boot"].variants[3].target = [os |-> "android", arch |-> "arm"]
  /\ \E k \in ZipRulesOf("boot") :
       rules[k].commands[1].inputs =
         images["boot"].variants[3].imagesDeps \o images["boot"].variants[1].imagesDeps
  /\ ZipRulesOf("art") = {}
  /\ <<"zip", "art">> \in built

\* The flags of the arguments of a rule, and the dex2oat command of a
\* compile rule: the last command of the rule.
FlagsOf(rule) == { a.flag : a \in ArgsOf(rule) }

Dex2oatCommand(rule) == rule.commands[Len(rule.commands)]

SeqToSet(s) == { s[i] : i \in 1..Len(s) }

\* The variant of the image that is one step up the extends chain.
BaseVariant(v) == getVariant(images[images[v.image].extends], v.target)

\* C18: every compile command carries exactly one of the two base
\* arguments: for an extension image the boot classpath paths and locations
\* of its dependencies and --boot-image= with the locations of its base
\* images, with implicit dependencies on the base image files and on all
\* files of the base images, and never --base=; for a primary image --base=
\* with the fixed base address and never --boot-image=.
C18_BaseArguments ==
  \A n \in BuildImageNames : \A v \in VariantsOf(n) : \A k \in CompileRulesFor(v) :
    LET flags == FlagsOf(rules[k])
        cmd == Dex2oatCommand(rules[k])
    IN /\ ("--base=" \in flags) # ("--boot-image=" \in flags)
       /\ images[n].extends # Nil =>
            LET base == BaseVariant(v)
            IN /\ "--base=" \notin flags
               /\ "-Xbootclasspath:" \in flags
               /\ "-Xbootclasspath-locations:" \in flags
               /\ FlagWithArg("--boot-image=",
                              PathToLocation(base.imagePathOnHost, v.target.arch))
                    \in ArgsOf(rules[k])
               /\ FlagWithList("-Xbootclasspath:",
                               images[images[n].extends].dexPaths \o images[n].dexPaths, ":")
                    \in ArgsOf(rules[k])
               /\ FlagWithList("-Xbootclasspath-locations:",
                               base.dexLocations \o v.dexLocations, ":")
                    \in ArgsOf(rules[k])
               /\ PathString(base.imagePathOnHost) \in SeqToSet(cmd.implicits)
               /\ SeqToSet(base.imagesDeps) \subseteq SeqToSet(cmd.implicits)
       /\ images[n].extends = Nil =>
            /\ FlagWithArg("--base=", global.LibartImgDeviceBaseAddress) \in ArgsOf(rules[k])
            /\ "--boot-image=" \notin flags
            /\ "-Xbootclasspath:" \notin flags
            /\ cmd.implicits = <<>>

C18_Witness ==
  /\ \E v \in VariantsOf("art") : CompileRulesFor(v) # {}
  /\ \E v \in VariantsOf("boot") : \E k \in CompileRulesFor(v) :
       /\ v.target = [os |-> "android", arch |-> "arm64"]
       /\ FlagWithArg("--boot-image=", "out/art/android/apex/art_boot_images/javalib/boot.art")
            \in ArgsOf(rules[k])
       /\ Dex2oatCommand(rules[k]).implicits =
            << "out/art/android/apex/art_boot_images/javalib/arm64/boot.art",
               "out/art/android/apex/art_boot_images/javalib/arm64/boot.art",
               "out/art/android/apex/art_boot_images/javalib/arm64/boot.oat",
               "out/art/android/apex/art_boot_images/javalib/arm64/boot.vdex" >>

\* C19: a compile command has a --compiler-filter= argument with the
\* configured filter of the image in every case but one: it is left out if
\* and only if the image is profile-guided, that is its compiler filter is
\* exactly "everything", and the global config disables profile generation.
C19_CompilerFilter ==
  \A n \in BuildImageNames : \A v \in VariantsOf(n) : \A k \in CompileRulesFor(v) :
    LET omitted == "--compiler-filter=" \notin FlagsOf(rules[k])
    IN /\ omitted <=> (images[n].compilerFilter = "everything"
                         /\ global.DisableGenerateProfile)
       /\ ~omitted =>
            \A a \in ArgsOf(rules[k]) :
              a.flag = "--compiler-filter=" => a.arg = images[n].compilerFilter

C19_Witness ==
  /\ global.DisableGenerateProfile
  /\ images["art"].compilerFilter = "everything"
  /\ images["boot"].compilerFilter = "Everything"
  /\ \E v \in VariantsOf("art") : \E k \in CompileRulesFor(v) :
       "--compiler-filter=" \notin FlagsOf(rules[k])
  /\ \E v \in VariantsOf("boot") : \E k \in CompileRulesFor(v) :
       FlagWithArg("--compiler-filter=", "Everything") \in ArgsOf(rules[k])

\* The last preferred fragment dependency of an image name, 0 for none.
FragmentIndex(from) ==
  LET matches == { k \in 1..Len(fragments) :
                     fragments[k].imageName = from /\ fragments[k].preferred }
  IN IF matches = {} THEN 0 ELSE CHOOSE k \in matches : \A j \in matches : j <= k

ImportFailsAt(n, i) ==
  LET k == FragmentIndex(images[n].profileImports[i])
  IN k = 0 \/ fragments[k].profile = NilPath

\* The module error of the first failing profile import of an image.
FirstImportError(n) ==
  LET i == CHOOSE j \in 1..Len(images[n].profileImports) :
             /\ ImportFailsAt(n, j)
             /\ \A h \in 1..(j - 1) : ~ImportFailsAt(n, h)
      from == images[n].profileImports[i]
  IN IF FragmentIndex(from) = 0
     THEN ImportNotFound(n, from)
     ELSE ImportNoProfile(n, from)

\* The OS a step builds image n for, Nil when the step is no such build.
OsBuilt(n) ==
  IF <<"android", n>> \in built' \ built THEN "android"
  ELSE IF <<"host", n>> \in built' \ built THEN BuildOS
  ELSE Nil

\* C20: in buildBootImageVariant a profile import is a module error when no
\* preferred bootclasspath fragment dependency has its image name or when
\* that fragment has no profile; at the first such error no compile rule is
\* generated for the variant, an empty output is returned, and installs,
\* vdexInstalls, unstrippedInstalls and licenseMetadataFile of the variant
\* stay as they were.
C20_ProfileImportError ==
  [][\A n \in BuildImageNames :
       (OsBuilt(n) # Nil /\ ImportFails(n)) =>
         LET matching == { i \in 1..Len(images[n].variants) :
                             images[n].variants[i].target.os = OsBuilt(n) }
         IN /\ rules' = rules
            /\ Len(errors') = Len(errors) + Cardinality(matching)
            /\ \A j \in 1..Len(errors') :
                 errors'[j] = IF j <= Len(errors) THEN errors[j] ELSE FirstImportError(n)
            /\ \A i \in 1..Len(images[n].variants) :
                 /\ images'[n].variants[i].installs = images[n].variants[i].installs
                 /\ images'[n].variants[i].vdexInstalls = images[n].variants[i].vdexInstalls
                 /\ images'[n].variants[i].unstrippedInstalls
                      = images[n].variants[i].unstrippedInstalls
                 /\ images'[n].variants[i].licenseMetadataFile
                      = images[n].variants[i].licenseMetadataFile
            /\ OsBuilt(n) = "android" =>
                 /\ Len(outputs'[n].variants) = Cardinality(matching)
                 /\ \A j \in 1..Len(outputs'[n].variants) :
                      outputs'[n].variants[j] = [config |-> NoVariant]]_vars

C20_Witness ==
  /\ <<"android", "boot">> \in built
  /\ global.isActiveModule
  /\ images["boot"].profileImports = <<"art", "extra">>
  /\ fragments = <<Fragment("art", TRUE, FragmentProfile("art")),
                   Fragment("extra", TRUE, NilPath)>>
  /\ errors # <<>>
  /\ \A j \in 1..Len(errors) : errors[j] = ImportNoProfile("boot", "extra")
  /\ \E v \in VariantsOf("boot") :
       /\ v.target.os = "android"
       /\ CompileRulesFor(v) = {}
       /\ v.installs = <<>>
       /\ v.licenseMetadataFile = NilPath
  /\ \E v \in VariantsOf("art") :
       /\ v.target.os = "android"
       /\ v.installs # <<>>
       /\ v.licenseMetadataFile = global.LicenseMetadataFile
  /\ outputs["boot"].variants # <<>>
  /\ \A j \in 1..Len(outputs["boot"].variants) :
       outputs["boot"].variants[j] = [config |-> NoVariant]

(***************************************************************************)
(* The dex_bootjars singleton: GenerateSingletonBuildActions and MakeVars. *)
(***************************************************************************)

\* The image names in the order sort.Strings gives them.
SortedImageNames == <<"art", "boot", "mainline">>

\* defaultBootImageConfig(ctx): the framework image.
defaultBootImageConfig == "boot"

\* The orders a range over the image configs can take.
ImageConfigOrders ==
  { o \in [1..Cardinality(AllImageNames) -> AllImageNames] :
      \A i, j \in DOMAIN o : i # j => o[i] # o[j] }

\* config.SanitizeDevice()
SanitizeDeviceLists == { <<>>, <<"address">>, <<"hwaddress">>, <<"address", "hwaddress">> }

\* toDexpreoptDirName(archType) and android.PathForOutput
toDexpreoptDirName(archType) == "dex_bootjars_" \o archType
PathForOutput(dir, name) == "out/soong/" \o dir \o "/" \o name

\* Mutant: boot images are skipped for every address sanitizer build.
shouldBuildBootImages_AnyAsan ==
  ~(Len(global.SanitizeDevice) = 1 /\ global.SanitizeDevice[1] = "address")

\* shouldBuildBootImages(config, global)
shouldBuildBootImages ==
  ~(Len(global.SanitizeDevice) = 1 /\ global.SanitizeDevice[1] = "address"
      /\ global.SanitizeLite)

\* Mutant: the default image is kept among the other images.
RECURSIVE OtherImagesFrom_KeepDefault(_, _, _, _)
OtherImagesFrom_KeepDefault(imageConfigs, defaultImageConfig, i, acc) ==
  IF i > Len(imageConfigs) THEN acc
  ELSE OtherImagesFrom_KeepDefault(imageConfigs, defaultImageConfig, i + 1,
                                   Append(acc, imageConfigs[i]))

\* The loop that collects the image configs other than the default one.
RECURSIVE OtherImagesFrom(_, _, _, _)
OtherImagesFrom(imageConfigs, defaultImageConfig, i, acc) ==
  IF i > Len(imageConfigs) THEN acc
  ELSE IF imageConfigs[i] # defaultImageConfig
       THEN OtherImagesFrom(imageConfigs, defaultImageConfig, i + 1,
                            Append(acc, imageConfigs[i]))
       ELSE OtherImagesFrom(imageConfigs, defaultImageConfig, i + 1, acc)

\* Mutant: only the built files are exported, without their install paths.
InstallsString_Sources(installs) ==
  Join([k \in 1..Len(installs) |-> installs[k].from], " ")

\* RuleBuilderInstalls.String()
InstallsString(installs) ==
  Join([k \in 1..Len(installs) |-> installs[k].from \o ":" \o installs[k].to], " ")

\* bootImageConfig.getAnyAndroidVariant()
RECURSIVE getAnyAndroidVariantFrom(_, _)
getAnyAndroidVariantFrom(variants, i) ==
  IF i > Len(variants) THEN NoVariant
  ELSE IF variants[i].target.os = "android" THEN variants[i]
       ELSE getAnyAndroidVariantFrom(variants, i + 1)

getAnyAndroidVariant(image) == getAnyAndroidVariantFrom(image.variants, 1)

\* ctx.Strict(name, value)
Strict(name, value) == [name |-> name, value |-> value]

\* The variables MakeVars exports for the variants of an image from index
\* i on.
RECURSIVE VariantVarsFrom(_, _)
VariantVarsFrom(current, i) ==
  IF i > Len(current.variants) THEN <<>>
  ELSE LET variant == current.variants[i]
           suffix == IF variant.target.os # "android" THEN "_host" ELSE ""
           sfx == current.name \o suffix \o "_" \o variant.target.arch
       IN <<Strict("DEXPREOPT_IMAGE_VDEX_BUILT_INSTALLED_" \o sfx,
                   InstallsString(variant.vdexInstalls)),
            Strict("DEXPREOPT_IMAGE_" \o sfx, PathString(variant.imagePathOnHost)),
            Strict("DEXPREOPT_IMAGE_DEPS_" \o sfx, Join(variant.imagesDeps, " ")),
            Strict("DEXPREOPT_IMAGE_BUILT_INSTALLED_" \o sfx,
                   InstallsString(variant.installs)),
            Strict("DEXPREOPT_IMAGE_UNSTRIPPED_BUILT_INSTALLED_" \o sfx,
                   InstallsString(variant.unstrippedInstalls))>>
          \o (IF variant.licenseMetadataFile # NilPath
              THEN <<Strict("DEXPREOPT_IMAGE_LICENSE_METADATA_" \o sfx,
                            variant.licenseMetadataFile)>>
              ELSE <<>>)
          \o VariantVarsFrom(current, i + 1)

\* The loop of MakeVars over append(d.otherImages, image) from index i on:
\* the names collected and the variables exported.
RECURSIVE ImageVarsFrom(_, _, _)
ImageVarsFrom(list, i, acc) ==
  IF i > Len(list) THEN acc
  ELSE LET current == images[list[i]]
           locations == imageLocations(getAnyAndroidVariant(current))
       IN ImageVarsFrom(list, i + 1,
            [imageNames |-> Append(acc.imageNames, current.name),
             vars |-> acc.vars
                        \o VariantVarsFrom(current, 1)
                        \o <<Strict("DEXPREOPT_IMAGE_LOCATIONS_ON_HOST" \o current.name,
                                    Join(locations.host, ":")),
                             Strict("DEXPREOPT_IMAGE_LOCATIONS_ON_DEVICE" \o current.name,
                                    Join(locations.device, ":")),
                             Strict("DEXPREOPT_IMAGE_ZIP_" \o current.name, current.zip)>>])

\* Mutant: the image names are exported in the order they were collected.
ImageNamesVar_Unsorted(imageNames) == Strict("DEXPREOPT_IMAGE_NAMES", Join(imageNames, " "))

\* sort.Strings(imageNames) and the DEXPREOPT_IMAGE_NAMES variable.
ImageNamesVar(imageNames) ==
  Strict("DEXPREOPT_IMAGE_NAMES", Join(SortStrings(SortedImageNames, imageNames), " "))

\* Everything MakeVars exports, in order.
MakeVarsOf(dd) ==
  LET skip == global.DisablePreoptBootImages
      configVars ==
        IF dd.dexpreoptConfigForMake # Nil /\ ~skip
        THEN <<Strict("DEX_PREOPT_CONFIG_FOR_MAKE", dd.dexpreoptConfigForMake),
               Strict("DEX_PREOPT_SOONG_CONFIG_FOR_MAKE",
                      "out/soong/dexpreopt_soong.config")>>
        ELSE <<>>
  IN IF dd.defaultBootImage = Nil THEN configVars
     ELSE LET image == images[dd.defaultBootImage]
              profileVars ==
                <<Strict("DEXPREOPT_IMAGE_PROFILE_BUILT_INSTALLED",
                         InstallsString(image.profileInstalls))>>
                \o (IF image.profileLicenseMetadataFile # NilPath
                    THEN <<Strict("DEXPREOPT_IMAGE_PROFILE_LICENSE_METADATA",
                                  image.profileLicenseMetadataFile)>>
                    ELSE <<>>)
          IN IF skip THEN configVars \o profileVars
             ELSE LET each == ImageVarsFrom(Append(dd.otherImages, image.name), 1,
                                            [imageNames |-> <<>>, vars |-> <<>>])
                  IN configVars \o profileVars
                     \o <<Strict("DEXPREOPT_BOOTCLASSPATH_DEX_FILES",
                                 Join(image.dexPathsDeps, " ")),
                          Strict("DEXPREOPT_BOOTCLASSPATH_DEX_LOCATIONS",
                                 Join(getAnyAndroidVariant(image).dexLocationsDeps, " "))>>
                     \o each.vars
                     \o <<ImageNamesVar(each.imageNames)>>

InitSingleton ==
  /\ \E targets \in TargetLists, sanitize \in SanitizeDeviceLists,
        lite \in BOOLEAN, skip \in BOOLEAN, cached \in BOOLEAN :
       /\ images = genBootImageConfigs(AllImageNames,
                     DefaultParams(<<[apex |-> "platform", jar |-> "core-oj"]>>), targets)
       /\ global = [SanitizeDevice |-> sanitize,
                    SanitizeLite |-> lite,
                    DisablePreoptBootImages |-> skip,
                    cachedGlobalSoongConfig |-> cached,
                    AndroidTargets |-> SelectSeq(targets, LAMBDA t : t.os = "android"),
                    rawData |-> "{}"]
  /\ moduleNameCall = NoCall
  /\ moduleFilesCall = NoCall
  /\ firstModuleNameCall = NoCall
  /\ fragments = <<>>
  /\ outputs = NoCall
  /\ built = {}
  /\ QueryIdle /\ CtxIdle /\ SingletonIdle /\ copyCall = NoCall /\ ToolIdle
  /\ env = <<>>
  /\ files = <<>>
  /\ vals = <<>>
  /\ panicMsg = NoPanic
  /\ FlagsIdle /\ SdIdle /\ QiifaIdle

\* d.GenerateSingletonBuildActions(ctx); the range over the image configs
\* takes any order.
GenerateSingletonBuildActions ==
  /\ singletonPc = "init"
  /\ singletonPc' = "generated"
  /\ IF ~global.cachedGlobalSoongConfig
     THEN UNCHANGED <<dexpreoptBootJars, rules>>
     ELSE LET archType == global.AndroidTargets[1].arch
              path == PathForOutput(toDexpreoptDirName(archType), "dexpreopt.config")
          IN /\ rules' = Append(rules, [name |-> "writeFile", output |-> path,
                                        content |-> global.rawData])
             /\ IF ~shouldBuildBootImages
                THEN dexpreoptBootJars' =
                       [dexpreoptBootJars EXCEPT !.dexpreoptConfigForMake = path]
                ELSE \E imageConfigs \in ImageConfigOrders :
                       dexpreoptBootJars' =
                         [dexpreoptConfigForMake |-> path,
                          defaultBootImage |-> defaultBootImageConfig,
                          otherImages |-> OtherImagesFrom(imageConfigs,
                                                          defaultBootImageConfig, 1, <<>>)]
  /\ UNCHANGED <<bootVars, queryVars, buildVars, copyCall, errors, missingDeps, makeVars>>
  /\ UNCHANGED <<env, files, vals, panicMsg, flagVars, sdVars, qiifaVars, toolVars>>

\* d.MakeVars(ctx)
MakeVars ==
  /\ makeVars = <<>>
  /\ makeVars' = MakeVarsOf(dexpreoptBootJars)
  /\ UNCHANGED <<dexpreoptBootJars, singletonPc>>
  /\ UNCHANGED <<bootVars, queryVars, buildVars, copyCall, ctxVars>>
  /\ UNCHANGED <<env, files, vals, panicMsg, flagVars, sdVars, qiifaVars, toolVars>>

NextSingleton == GenerateSingletonBuildActions \/ MakeVars

SpecSingleton == InitSingleton /\ [][NextSingleton]_vars

\* The values MakeVars exported under a name.
ExportedAs(name) == { makeVars[i].value : i \in { j \in 1..Len(makeVars) : makeVars[j].name = name } }

ExportsOf(name) == { j \in 1..Len(makeVars) : makeVars[j].name = name }

\* C15: DEXPREOPT_IMAGE_NAMES lists the name of the default image and of
\* every other image exactly once each, joined by spaces in lexicographic
\* order, whatever the order in which the image configs were constructed or
\* are stored in otherImages.
C15_ImageNames ==
  LET dd == dexpreoptBootJars
      listed == SelectSeq(SortedImageNames,
                          LAMBDA n : n = dd.defaultBootImage
                                       \/ \E i \in 1..Len(dd.otherImages) : dd.otherImages[i] = n)
  IN /\ ExportsOf("DEXPREOPT_IMAGE_NAMES") # {} =>
          /\ Cardinality(ExportsOf("DEXPREOPT_IMAGE_NAMES")) = 1
          /\ ExportedAs("DEXPREOPT_IMAGE_NAMES") = {Join(listed, " ")}
          /\ ExportedAs("DEXPREOPT_IMAGE_NAMES") = {"art boot mainline"}
     /\ (makeVars # <<>> /\ dd.defaultBootImage # Nil /\ ~global.DisablePreoptBootImages)
          => ExportsOf("DEXPREOPT_IMAGE_NAMES") # {}

C15_Witness ==
  /\ dexpreoptBootJars.defaultBootImage = "boot"
  /\ dexpreoptBootJars.otherImages = <<"mainline", "art">>
  /\ ExportedAs("DEXPREOPT_IMAGE_NAMES") = {"art boot mainline"}

\* Boot images are to be built unless the only device sanitizer is
\* "address" and SanitizeLite is set.
BuildWanted ==
  ~(global.SanitizeDevice = <<"address">> /\ global.SanitizeLite)

\* C16: GenerateSingletonBuildActions gates its steps in order: with a nil
\* cached global soong config it produces nothing and leaves
\* dexpreoptConfigForMake, defaultBootImage and otherImages unset;
\* otherwise it always writes the dexpreopt config for make, before the
\* skip check, and it sets defaultBootImage and otherImages only if boot
\* images are to be built, which they are not exactly when the device
\* sanitizer list is the single entry "address" and SanitizeLite is set.
C16_Gating ==
  [][(singletonPc = "init" /\ singletonPc' = "generated") =>
       IF ~global.cachedGlobalSoongConfig
       THEN /\ rules' = rules
            /\ dexpreoptBootJars' = dexpreoptBootJars
            /\ dexpreoptBootJars'.dexpreoptConfigForMake = Nil
            /\ dexpreoptBootJars'.defaultBootImage = Nil
            /\ dexpreoptBootJars'.otherImages = <<>>
       ELSE /\ dexpreoptBootJars'.dexpreoptConfigForMake # Nil
            /\ Len(rules') = Len(rules) + 1
            /\ rules'[Len(rules')].output = dexpreoptBootJars'.dexpreoptConfigForMake
            /\ BuildWanted =>
                 /\ dexpreoptBootJars'.defaultBootImage # Nil
                 /\ dexpreoptBootJars'.otherImages # <<>>
            /\ ~BuildWanted =>
                 /\ dexpreoptBootJars'.defaultBootImage = Nil
                 /\ dexpreoptBootJars'.otherImages = <<>>]_vars

C16_Witness ==
  /\ singletonPc = "generated"
  /\ global.cachedGlobalSoongConfig
  /\ global.SanitizeDevice = <<"address">>
  /\ global.SanitizeLite
  /\ dexpreoptBootJars.dexpreoptConfigForMake = "out/soong/dex_bootjars_arm64/dexpreopt.config"
  /\ dexpreoptBootJars.defaultBootImage = Nil
  /\ Len(rules) = 1
  /\ ExportedAs("DEX_PREOPT_CONFIG_FOR_MAKE") # {}

\* C17: once GenerateSingletonBuildActions has built the images,
\* otherImages holds every image config but the default one, each exactly
\* once, and never the default one; the default image and otherImages
\* together partition the image configs.
C17_OtherImages ==
  LET dd == dexpreoptBootJars
      others == { dd.otherImages[i] : i \in 1..Len(dd.otherImages) }
  IN dd.defaultBootImage # Nil =>
       /\ dd.defaultBootImage \in AllImageNames
       /\ dd.defaultBootImage \notin others
       /\ others \cup {dd.defaultBootImage} = AllImageNames
       /\ Len(dd.otherImages) = Cardinality(AllImageNames) - 1
       /\ \A i, j \in 1..Len(dd.otherImages) : i # j => dd.otherImages[i] # dd.otherImages[j]

C17_Witness ==
  /\ singletonPc = "generated"
  /\ dexpreoptBootJars.defaultBootImage = "boot"
  /\ dexpreoptBootJars.otherImages = <<"art", "mainline">>

(***************************************************************************)
(* Lookup of a variant by target.                                          *)
(***************************************************************************)

\* The positions of the variants of image n for the target's OS and
\* architecture type.
MatchesOf(n, target) ==
  { i \in 1..Len(images[n].variants) :
      /\ images[n].variants[i].target.os = target.os
      /\ images[n].variants[i].target.arch = target.arch }

\* C24: getVariant(target) returns nil when the image has no variant of the
\* target's OS and architecture type; otherwise it returns a variant of that
\* OS and architecture type, and as the pairs are unique in the variant list
\* it is the only such variant.
C24_GetVariant ==
  getVariantCall # NoCall =>
    LET matches == MatchesOf(getVariantCall.image, getVariantCall.target)
        variants == images[getVariantCall.image].variants
    IN IF matches = {}
       THEN getVariantCall.result = NoVariant
       ELSE /\ getVariantCall.result # NoVariant
            /\ getVariantCall.result.target.os = getVariantCall.target.os
            /\ getVariantCall.result.target.arch = getVariantCall.target.arch
            /\ Cardinality(matches) = 1
            /\ \A i \in matches : variants[i] = getVariantCall.result

\* A lookup in the mainline image that passes over another Android variant
\* and returns the arm64 variant in third place.
C24_Witness ==
  /\ getVariantCall # NoCall
  /\ getVariantCall.image = "mainline"
  /\ Len(images["mainline"].variants) = 3
  /\ images["mainline"].variants[1].target.os = "android"
  /\ getVariantCall.target = [os |-> "android", arch |-> "arm64"]
  /\ getVariantCall.result = images["mainline"].variants[3]

(***************************************************************************)
(* The outcomes of copyBootJarsToPredefinedLocations, name by name.        *)
(***************************************************************************)

\* The names that are keys of either map of the call.
NamesOfCall == DOMAIN copyCall.src \cup DOMAIN copyCall.dst

\* A name has a jar in the source map, or a path in the destination map.
HasSrc(name) == Lookup(copyCall.src, name) # NilPath
HasDst(name) == Lookup(copyCall.dst, name) # NilPath

\* The outcome the call owes a name: a copy, one of the two module errors,
\* or a missing dependency.
OutcomeOf(name) ==
  IF ~HasSrc(name)
  THEN IF copyCall.allowMissing THEN "missing" ELSE "no dex boot jar"
  ELSE IF ~HasDst(name) THEN "not in boot config" ELSE "copy"

\* C29: copyBootJarsToPredefinedLocations handles every name of the source
\* and destination maps once, in sorted order, with one outcome each: the
\* copy rules are those of the names in both maps, from the source jar to
\* the predefined destination; the module errors are "is not part of the
\* boot configuration" for the names only in the source map and, when
\* missing dependencies are not allowed, "does not provide a dex boot jar"
\* for the names without a source jar; when they are allowed those names
\* are recorded as missing dependencies without an error.  There are as
\* many copy rules as names in both maps.
C29_OneOutcomePerName ==
  copyCall # NoCall =>
    LET IsCopy(name) == name \in NamesOfCall /\ OutcomeOf(name) = "copy"
        IsError(name) ==
          name \in NamesOfCall /\ OutcomeOf(name) \in {"no dex boot jar", "not in boot config"}
        IsMissing(name) == name \in NamesOfCall /\ OutcomeOf(name) = "missing"
        copied == SelectSeq(SortedJarNames, IsCopy)
        reported == SelectSeq(SortedJarNames, IsError)
        missing == SelectSeq(SortedJarNames, IsMissing)
    IN /\ rules = [k \in 1..Len(copied) |->
                     [rule |-> "Cp", input |-> copyCall.src[copied[k]],
                      output |-> copyCall.dst[copied[k]]]]
       /\ errors = [k \in 1..Len(reported) |->
                      IF OutcomeOf(reported[k]) = "not in boot config"
                      THEN NotInBootConfig(reported[k])
                      ELSE NoDexBootJar(reported[k])]
       /\ missingDeps = missing
       /\ Len(rules) = Cardinality({ name \in JarNames : HasSrc(name) /\ HasDst(name) })
       /\ Len(rules) + Len(errors) + Len(missingDeps) = Cardinality(NamesOfCall)

\* With missing dependencies allowed: one name copied, one only expected and
\* recorded as missing, one only provided and reported.
C29_Witness ==
  /\ copyCall # NoCall
  /\ copyCall.allowMissing
  /\ DOMAIN copyCall.src = {"core-oj", "okhttp"}
  /\ DOMAIN copyCall.dst = {"core-oj", "framework"}
  /\ HasSrc("core-oj") /\ HasSrc("okhttp") /\ HasDst("core-oj") /\ HasDst("framework")
  /\ missingDeps = <<"framework">>
  /\ errors = <<NotInBootConfig("okhttp")>>
  /\ Len(rules) = 1

(***************************************************************************)
(* The boot profile rule: bootImageProfileRule.                            *)
(***************************************************************************)

defaultProfile == "frameworks/base/config/boot-image-profile.txt"
extraProfile == "frameworks/base/config/boot-image-profile-extra.txt"
bootImageProfInstall == "/system/etc/boot-image.prof"

\* Mutant: the default profile is taken whether or not it is on disk.
ProfileInputs_NoDefaultCheck ==
  IF Len(global.BootImageProfiles) > 0
  THEN [valid |-> TRUE, profiles |-> global.BootImageProfiles]
  ELSE [valid |-> TRUE, profiles |-> <<defaultProfile>>]

\* The profiles the rule starts from: the configured boot image profiles,
\* else the default profile if it is on disk, else none and the rule is
\* given up.
ProfileInputs ==
  IF Len(global.BootImageProfiles) > 0
  THEN [valid |-> TRUE, profiles |-> global.BootImageProfiles]
  ELSE IF ExistentPathForSource(defaultProfile)
       THEN [valid |-> TRUE, profiles |-> <<defaultProfile>>]
       ELSE [valid |-> FALSE, profiles |-> <<>>]

\* Mutant: the profile of every image is installed.
ProfileInstalls_AnyImage(config, profile) ==
  [config EXCEPT
     !.profileInstalls = Append(@, [from |-> profile, to |-> bootImageProfInstall]),
     !.profileLicenseMetadataFile = global.LicenseMetadataFile]

\* The image after the install step: only the default boot image config
\* gets the install of the profile and the license metadata file.
ProfileInstalls(config, profile) ==
  IF config.name = defaultBootImageConfig
  THEN [config EXCEPT
          !.profileInstalls = Append(@, [from |-> profile, to |-> bootImageProfInstall]),
          !.profileLicenseMetadataFile = global.LicenseMetadataFile]
  ELSE config

\* The rule "bootJarsProfile" of an image for the text profiles given.
ProfileRule(config, profiles, installs) ==
  [name |-> "bootJarsProfile",
   description |-> "profile boot jars",
   commands |->
     <<[args |-> <<Flag("cat"), Flag(">")>>,
        inputs |-> profiles,
        implicits |-> <<>>,
        implicitOutputs |-> <<PathJoin(config.dir, "boot-image-profile.txt")>>],
       [args |-> <<Flag("ANDROID_LOG_TAGS=\"*:e\""),
                   Flag(global.Profman),
                   Flag("--output-profile-type=boot"),
                   FlagWithArg("--create-profile-from=",
                               PathJoin(config.dir, "boot-image-profile.txt"))>>
                 \o FlagForEachArg("--apk=", config.dexPathsDeps)
                 \o FlagForEachArg("--dex-location=",
                                   getAnyAndroidVariant(config).dexLocationsDeps)
                 \o <<FlagWithArg("--reference-profile-file=",
                                  PathJoin(config.dir, "boot.prof"))>>,
        inputs |-> <<PathJoin(config.dir, "boot-image-profile.txt")>> \o config.dexPathsDeps,
        implicits |-> <<>>,
        implicitOutputs |-> <<PathJoin(config.dir, "boot.prof")>>]>>,
   installs |-> installs]

\* bootImageProfileRule(ctx, image): the rules of the context and the image
\* afterwards, and the profile returned, nil when the rule is skipped.
bootImageProfileRuleOf(n) ==
  IF ~isProfileGuided(images[n]) \/ global.DisableGenerateProfile \/ ~ProfileInputs.valid
  THEN [rules |-> rules, image |-> images[n], profile |-> NilPath]
  ELSE [rules |->
          Append(rules,
                 ProfileRule(images[n],
                             ProfileInputs.profiles
                             \o (IF ExistentPathForSource(extraProfile)
                                 THEN <<extraProfile>> ELSE <<>>),
                             IF n = defaultBootImageConfig
                             THEN <<[from |-> PathJoin(images[n].dir, "boot.prof"),
                                     to |-> bootImageProfInstall]>>
                             ELSE <<>>)),
        image |-> ProfileInstalls(images[n], PathJoin(images[n].dir, "boot.prof")),
        profile |-> PathJoin(images[n].dir, "boot.prof")]

\* The boot image profiles a product may configure.
BootImageProfileLists ==
  { <<>>, <<"vendor/profiles/boot.txt">>,
    <<"vendor/profiles/boot.txt", "device/profiles/boot.txt">> }

\* The compiler filters of the two images, both profile-guided included.
ProfileFilterPairs == CompilerFilterPairs \cup {<<"everything", "everything">>}

InitProfile ==
  /\ \E targets \in TargetLists, filters \in ProfileFilterPairs, disable \in BOOLEAN,
        profiles \in BootImageProfileLists, default \in BOOLEAN, extra \in BOOLEAN :
       /\ images = genBootImageConfigs(BuildImageNames,
                     [n \in BuildImageNames |->
                        [modules |-> <<[apex |-> "platform",
                                        jar |-> IF n = "art" THEN "core-oj" ELSE "framework"]>>,
                         singleImage |-> FALSE,
                         compilerFilter |-> IF n = "art" THEN filters[1] ELSE filters[2],
                         preloadedClassesFile |-> "",
                         profileImports |-> <<>>]],
                     targets)
       /\ global = [DisableGenerateProfile |-> disable,
                    BootImageProfiles |-> profiles,
                    Profman |-> "out/host/bin/profman",
                    LicenseMetadataFile |-> "out/meta_lic"]
       /\ files = [f \in {defaultProfile, extraProfile} |->
                     IF (f = defaultProfile /\ default) \/ (f = extraProfile /\ extra)
                     THEN JsonFile(JBool(TRUE)) ELSE Missing]
  /\ fragments = <<>>
  /\ outputs = NoCall
  /\ built = {}
  /\ moduleNameCall = NoCall
  /\ moduleFilesCall = NoCall
  /\ firstModuleNameCall = NoCall
  /\ QueryIdle /\ CtxIdle /\ SingletonIdle /\ copyCall = NoCall /\ ToolIdle
  /\ env = <<>>
  /\ vals = <<>>
  /\ panicMsg = NoPanic
  /\ FlagsIdle /\ SdIdle /\ QiifaIdle

\* bootImageProfileRule(ctx, image), called once for an image by its module.
bootImageProfileRule ==
  \E n \in BuildImageNames :
    /\ <<"profile", n>> \notin built
    /\ \E r \in {bootImageProfileRuleOf(n)} :
         /\ rules' = r.rules
         /\ images' = [images EXCEPT ![n] = r.image]
         /\ profileRuleCall' = [image |-> n, result |-> r.profile]
    /\ built' = built \cup {<<"profile", n>>}
    /\ UNCHANGED <<moduleNameCall, moduleFilesCall, firstModuleNameCall>>
    /\ UNCHANGED <<global, fragments, outputs, errors, missingDeps>>
    /\ UNCHANGED <<queryVars, copyCall, singletonVars, onceVars>>
    /\ UNCHANGED <<env, files, vals, panicMsg, flagVars, sdVars, qiifaVars>>

NextProfile == bootImageProfileRule

SpecProfile == InitProfile /\ [][NextProfile]_vars

\* A step in which bootImageProfileRule is called for image n.
ProfileRuleStep(n) == <<"profile", n>> \notin built /\ <<"profile", n>> \in built'

\* The call of the step was skipped: no profile, no rule, the images as
\* they were.
ProfileRuleSkipped ==
  /\ profileRuleCall'.result = NilPath
  /\ rules' = rules
  /\ images' = images

\* The call of the step for image n added the rule that concatenates the
\* profiles given and returned the binary profile of the image.
ProfileRuleGenerated(n, profiles) ==
  /\ profileRuleCall'.result = PathJoin(images[n].dir, "boot.prof")
  /\ Len(rules') = Len(rules) + 1
  /\ SubSeq(rules', 1, Len(rules)) = rules
  /\ rules'[Len(rules')].name = "bootJarsProfile"
  /\ rules'[Len(rules')].commands[1].args[1] = Flag("cat")
  /\ rules'[Len(rules')].commands[1].inputs = profiles

\* The extra profile text file, if it is on disk.
ExtraProfileIfPresent ==
  IF ExistentPathForSource(extraProfile) THEN <<extraProfile>> ELSE <<>>

\* C21 as stated: the rule is skipped when the image is not profile-guided,
\* when profile generation is disabled, or when the default profile file is
\* not on disk; otherwise it concatenates the default profile file with the
\* extra profile file if present.
C21_Original ==
  [][\A n \in BuildImageNames :
       ProfileRuleStep(n) =>
         IF \/ ~isProfileGuided(images[n])
            \/ global.DisableGenerateProfile
            \/ ~ExistentPathForSource(defaultProfile)
         THEN ProfileRuleSkipped
         ELSE ProfileRuleGenerated(n, <<defaultProfile>> \o ExtraProfileIfPresent)]_vars

\* C21 (amended): the boot profile rule is skipped (no profile returned, no
\* rule emitted, no image field changed) when the image is not
\* profile-guided or profile generation is disabled; otherwise it
\* concatenates the configured boot image profiles or, when none is
\* configured, the default profile file, with the extra profile file if
\* present; when no profile is configured and the default profile file is
\* not on disk the rule is skipped and no profile is used.
C21_ProfileRule ==
  [][\A n \in BuildImageNames :
       ProfileRuleStep(n) =>
         IF \/ ~isProfileGuided(images[n])
            \/ global.DisableGenerateProfile
            \/ (global.BootImageProfiles = <<>> /\ ~ExistentPathForSource(defaultProfile))
         THEN ProfileRuleSkipped
         ELSE ProfileRuleGenerated(n,
                (IF global.BootImageProfiles # <<>> THEN global.BootImageProfiles
                 ELSE <<defaultProfile>>) \o ExtraProfileIfPresent)]_vars

\* The framework image got its rule from two configured profiles and the
\* extra profile while the default profile is not on disk, and the ART
\* image, not profile-guided, was skipped after it.
C21_Witness ==
  /\ built = {<<"profile", "boot">>, <<"profile", "art">>}
  /\ profileRuleCall = [image |-> "art", result |-> NilPath]
  /\ ~ExistentPathForSource(defaultProfile)
  /\ Len(rules) = 1
  /\ rules[1].commands[1].inputs =
       <<"vendor/profiles/boot.txt", "device/profiles/boot.txt", extraProfile>>

\* C22: bootImageProfileRule installs the profile to
\* /system/etc/boot-image.prof and writes profileInstalls and
\* profileLicenseMetadataFile of the image only for the default (framework)
\* image; for any other image both fields stay as they were, whether or not
\* its rule is generated.
C22_ProfileInstall ==
  [][\A n \in BuildImageNames :
       ProfileRuleStep(n) =>
         /\ \A m \in BuildImageNames \ {n} : images'[m] = images[m]
         /\ IF n = defaultBootImageConfig /\ profileRuleCall'.result # NilPath
            THEN /\ images'[n].profileInstalls =
                      Append(images[n].profileInstalls,
                             [from |-> profileRuleCall'.result, to |-> bootImageProfInstall])
                 /\ images'[n].profileLicenseMetadataFile = global.LicenseMetadataFile
                 /\ rules'[Len(rules')].installs =
                      <<[from |-> profileRuleCall'.result, to |-> bootImageProfInstall]>>
            ELSE /\ images'[n].profileInstalls = images[n].profileInstalls
                 /\ images'[n].profileLicenseMetadataFile = images[n].profileLicenseMetadataFile
                 /\ \A k \in (Len(rules) + 1)..Len(rules') : rules'[k].installs = <<>>]_vars

\* Both images are profile-guided and both rules were generated: the
\* framework image has the install and the license metadata file, the ART
\* image has neither.
C22_Witness ==
  /\ built = {<<"profile", "boot">>, <<"profile", "art">>}
  /\ Len(rules) = 2
  /\ images["boot"].profileInstalls =
       <<[from |-> "out/boot/boot.prof", to |-> "/system/etc/boot-image.prof"]>>
  /\ images["boot"].profileLicenseMetadataFile = global.LicenseMetadataFile
  /\ images["art"].profileInstalls = <<>>
  /\ images["art"].profileLicenseMetadataFile = NilPath

(***************************************************************************)
(* Toolchain paths: ClangPath and clangPath with the Once cache of the     *)
(* build configuration.                                                    *)
(***************************************************************************)

ClangDefaultBase == "prebuilts/clang/host"
ClangDefaultVersion == "clang-r498229b"

\* android.NewOnceKey("clangPath") and
\* android.NewCustomOnceKey(clangToolKey(file)): keys of different kinds
\* are never equal, custom keys are equal when their values are.
clangPathKey == [kind |-> "OnceKey", name |-> "clangPath"]

ClangToolKey(file) == [kind |-> "clangToolKey", name |-> file]

\* Config.PrebuiltOS()
PrebuiltOS == IF goos = "linux" THEN "linux-x86" ELSE "darwin-x86"

\* The Once cache with the value of a key stored, its function evaluated
\* once more.
OnceStore(st, key, value) ==
  [cache |-> [k \in DOMAIN st.cache \cup {key} |-> IF k = key THEN value ELSE st.cache[k]],
   evals |-> [k \in DOMAIN st.evals \cup {key} |->
                IF k = key THEN (IF key \in DOMAIN st.evals THEN st.evals[key] ELSE 0) + 1
                ELSE st.evals[k]],
   value |-> value]

\* Mutant: the install path is computed again at every call.
clangPathOf_Uncached(st) ==
  OnceStore(st, clangPathKey,
    PathString(<<IF env["LLVM_PREBUILTS_BASE"] # "" THEN env["LLVM_PREBUILTS_BASE"]
                 ELSE ClangDefaultBase,
                 PrebuiltOS,
                 IF env["LLVM_PREBUILTS_VERSION"] # "" THEN env["LLVM_PREBUILTS_VERSION"]
                 ELSE ClangDefaultVersion>>))

\* clangPath(ctx): the cached install path, computed at the first call as
\* base directory / host prebuilt tag / version.
clangPathOf(st) ==
  IF clangPathKey \in DOMAIN st.cache
  THEN [cache |-> st.cache, evals |-> st.evals, value |-> st.cache[clangPathKey]]
  ELSE OnceStore(st, clangPathKey,
         PathString(<<IF env["LLVM_PREBUILTS_BASE"] # "" THEN env["LLVM_PREBUILTS_BASE"]
                      ELSE ClangDefaultBase,
                      PrebuiltOS,
                      IF env["LLVM_PREBUILTS_VERSION"] # "" THEN env["LLVM_PREBUILTS_VERSION"]
                      ELSE ClangDefaultVersion>>))

\* The function ClangPath hands to OnceSourcePath: clangPath(ctx).Join(ctx, file),
\* stored under key.
ClangPathJoin(inner, key, file) == OnceStore(inner, key, PathJoin(inner.value, file))

\* ClangPath(ctx, file): the cached path of the file, computed at the first
\* call for that file name.
ClangPathOf(st, file) ==
  IF ClangToolKey(file) \in DOMAIN st.cache
  THEN [cache |-> st.cache, evals |-> st.evals, value |-> st.cache[ClangToolKey(file)]]
  ELSE ClangPathJoin(clangPathOf(st), ClangToolKey(file), file)

\* The file names asked for; one reads like the name of the install path key.
ClangFiles == {"bin/clang", "bin/clang++", "bin/llvm-ar", "clangPath"}

InitClang ==
  /\ \E base \in {"", "prebuilts/clang-next/host"}, version \in {"", "clang-dev"} :
       env = [k \in {"LLVM_PREBUILTS_BASE", "LLVM_PREBUILTS_VERSION"} |->
                IF k = "LLVM_PREBUILTS_BASE" THEN base ELSE version]
  /\ goos \in {"linux", "darwin"}
  /\ commonGlobalCflags = None
  /\ deviceGlobalCflags = None
  /\ noOverrideGlobalCflags = None
  /\ deviceGlobalLdflags = None
  /\ deviceGlobalLldflags = None
  /\ files = <<>>
  /\ vals = <<>>
  /\ panicMsg = NoPanic
  /\ SdIdle /\ QiifaIdle /\ BootIdle /\ ExtIdle

\* ClangPath(ctx, file) for any file name, any number of times.
ClangPath ==
  \E file \in ClangFiles :
    \E r \in {ClangPathOf([cache |-> onceCache, evals |-> onceEvals], file)} :
      /\ onceCache' = r.cache
      /\ onceEvals' = r.evals
      /\ clangPathCall' = [file |-> file, result |-> r.value]
      /\ UNCHANGED <<env, files, vals, panicMsg, flagVars, sdVars, qiifaVars, bootVars>>
      /\ UNCHANGED <<queryVars, ctxVars, buildVars, copyCall, singletonVars, profileRuleCall>>

NextClang == ClangPath

SpecClang == InitClang /\ [][NextClang]_vars

\* The install path the environment asks for.
ExpectedClangPath ==
  (IF env["LLVM_PREBUILTS_BASE"] = "" THEN "prebuilts/clang/host"
   ELSE env["LLVM_PREBUILTS_BASE"])
  \o "/" \o (IF goos = "linux" THEN "linux-x86" ELSE "darwin-x86") \o "/"
  \o (IF env["LLVM_PREBUILTS_VERSION"] = "" THEN "clang-r498229b"
      ELSE env["LLVM_PREBUILTS_VERSION"])

\* C23: the install path is base directory (LLVM_PREBUILTS_BASE or default)
\* / host prebuilt tag / version (LLVM_PREBUILTS_VERSION or default) and is
\* evaluated at most once; ClangPath(file) evaluates its join at most once
\* per file name and every call returns the path cached for its file name,
\* the install path joined with that name; each file name has a cache entry
\* of its own.
C23_ClangPathCached ==
  /\ DOMAIN onceEvals = DOMAIN onceCache
  /\ \A k \in DOMAIN onceEvals : onceEvals[k] = 1
  /\ clangPathKey \in DOMAIN onceCache => onceCache[clangPathKey] = ExpectedClangPath
  /\ \A f \in ClangFiles :
       ClangToolKey(f) \in DOMAIN onceCache =>
         /\ clangPathKey \in DOMAIN onceCache
         /\ onceCache[ClangToolKey(f)] = ExpectedClangPath \o "/" \o f
  /\ Cardinality(DOMAIN onceCache \ {clangPathKey})
       = Cardinality({ f \in ClangFiles : ClangToolKey(f) \in DOMAIN onceCache })
  /\ clangPathCall # NoCall =>
       /\ ClangToolKey(clangPathCall.file) \in DOMAIN onceCache
       /\ clangPathCall.result = onceCache[ClangToolKey(clangPathCall.file)]

\* All four files were asked for under overridden base and version, the
\* file named like the install path key last: five cache entries, each
\* evaluated once.
C23_Witness ==
  /\ env["LLVM_PREBUILTS_BASE"] = "prebuilts/clang-next/host"
  /\ env["LLVM_PREBUILTS_VERSION"] = "clang-dev"
  /\ goos = "darwin"
  /\ Cardinality(DOMAIN onceCache) = 5
  /\ clangPathCall =
       [file |-> "clangPath",
        result |-> "prebuilts/clang-next/host/darwin-x86/clang-dev/clangPath"]
  /\ onceCache[clangPathKey] = "prebuilts/clang-next/host/darwin-x86/clang-dev"

(***************************************************************************)
(* What buildBootImageForOsType returns.                                   *)
(***************************************************************************)

\* The positions of the Android variants of image n, in the order of the
\* variant list.
AndroidVariantIndexes(n) ==
  LET IsAndroid(i) == images[n].variants[i].target.os = "android"
  IN SelectSeq([i \in 1..Len(images[n].variants) |-> i], IsAndroid)

\* C30: buildBootImageForOsType records for every variant of the requested
\* OS one entry in the returned variants list, in order, and the variant's
\* predefined imagesDeps under its architecture in byArch, whether or not a
\* rule was generated: when a profile import fails the entries of the
\* variants list have a nil config while byArch still holds the files of
\* every architecture, and the zip rule built from it bundles them.
C30_OutputsRecorded ==
  \A n \in BuildImageNames :
    <<"android", n>> \in built =>
      LET idx == AndroidVariantIndexes(n)
          out == outputs[n]
      IN /\ Len(out.variants) = Len(idx)
         /\ out.byArch # NilMap
         /\ DOMAIN out.byArch = { images[n].variants[idx[k]].target.arch : k \in 1..Len(idx) }
         /\ \A k \in 1..Len(idx) :
              /\ out.byArch[images[n].variants[idx[k]].target.arch]
                   = images[n].variants[idx[k]].imagesDeps
              /\ out.variants[k].config =
                   IF ImportFails(n) THEN NoVariant ELSE [image |-> n, variant |-> idx[k]]
         /\ (ImportFails(n) /\ <<"zip", n>> \in built) =>
              /\ CompileRulesFor(images[n].variants[idx[1]]) = {}
              /\ ZipBundlesOwnFiles(n)

\* A profile import of the framework image failed for its arm and arm64
\* variants: two module errors, two entries without a config, the files of
\* both architectures recorded and zipped.
C30_Witness ==
  /\ ImportFails("boot")
  /\ {<<"android", "boot">>, <<"zip", "boot">>} \subseteq built
  /\ Len(AndroidVariantIndexes("boot")) = 2
  /\ Len(errors) >= 2
  /\ outputs["boot"].variants = <<[config |-> NoVariant], [config |-> NoVariant]>>
  /\ DOMAIN outputs["boot"].byArch = {"arm", "arm64"}
  /\ Cardinality(ZipRulesOf("boot")) = 1

(***************************************************************************)
(* Rule generation and variable export side by side: the build calls of    *)
(* the images and MakeVars of the singleton, in any order.                 *)
(***************************************************************************)

\* The libraries of an image: one, or two.
ExportModules(n, two) ==
  [i \in 1..(IF two THEN 2 ELSE 1) |->
     [apex |-> "platform",
      jar |-> IF n = "art" THEN (IF i = 1 THEN "core-oj" ELSE "okhttp")
              ELSE (IF i = 1 THEN "framework" ELSE "ext")]]

\* The images and the singleton as GenerateSingletonBuildActions leaves
\* them, no variant built yet; the framework image imports the profile of
\* the ART image, from a fragment with or without a profile.
InitExport ==
  /\ \E targets \in TargetLists, two \in BOOLEAN, single \in BOOLEAN,
        imported \in BOOLEAN, alt \in BOOLEAN :
       /\ images = genBootImageConfigs(BuildImageNames,
                     [n \in BuildImageNames |->
                        [modules |-> ExportModules(n, two),
                         singleImage |-> single,
                         compilerFilter |-> "speed-profile",
                         preloadedClassesFile |-> "",
                         profileImports |-> IF n = "art" THEN <<>> ELSE <<"art">>]],
                     targets)
       /\ fragments = <<Fragment("art", TRUE,
                                 IF imported THEN FragmentProfile("art") ELSE NilPath)>>
       /\ global = GlobalConfig(FALSE, alt) @@ [DisablePreoptBootImages |-> FALSE]
       /\ env = [k \in {"ART_BOOT_IMAGE_EXTRA_ARGS"} |->
                   IF alt THEN "--runtime-arg -verbose:verifier" ELSE ""]
       /\ dexpreoptBootJars =
            [dexpreoptConfigForMake |->
               PathForOutput(
                 toDexpreoptDirName(SelectSeq(targets, LAMBDA t : t.os = "android")[1].arch),
                 "dexpreopt.config"),
             defaultBootImage |-> defaultBootImageConfig,
             otherImages |-> <<"art">>]
  /\ files = [f \in {dirtyImageFile, preloadedClasses} |-> Missing]
  /\ outputs = [n \in BuildImageNames |-> NoOutputs]
  /\ built = {}
  /\ makeVars = <<>>
  /\ singletonPc = "generated"
  /\ moduleNameCall = NoCall
  /\ moduleFilesCall = NoCall
  /\ firstModuleNameCall = NoCall
  /\ QueryIdle /\ CtxIdle /\ copyCall = NoCall /\ ToolIdle
  /\ vals = <<>>
  /\ panicMsg = NoPanic
  /\ FlagsIdle /\ SdIdle /\ QiifaIdle

NextExport ==
  \/ buildBootImageVariantsForAndroidOs
  \/ buildBootImageVariantsForBuildOs
  \/ buildBootImageZipInPredefinedLocation
  \/ MakeVars

SpecExport == InitExport /\ [][NextExport]_vars

\* The libraries whose files an image has: all, or the first one only for
\* a single-image config.
LibrariesWithFiles(n) == IF images[n].singleImage THEN 1 ELSE Len(images[n].modules)

\* The install targets owed for the files with the extensions given in
\* directory dir: for each library in order and each extension in order
\* the file <dir>/<name><ext>, installed with the same base name under the
\* directory of the variant's image path on the device.
InstallTargets(n, v, dir, exts) ==
  [k \in 1..(LibrariesWithFiles(n) * Len(exts)) |->
     LET base == moduleName(images[n], (k - 1) \div Len(exts))
                   \o exts[((k - 1) % Len(exts)) + 1]
     IN [from |-> dir \o "/" \o base,
         to |-> PathString(SubSeq(v.imagePathOnDevice, 1, Len(v.imagePathOnDevice) - 1))
                  \o "/" \o base]]

\* The directories a variant's files and unstripped files are written to.
OutputDirOf(n, v) ==
  images[n].dir \o "/" \o v.target.os \o "/" \o images[n].installDir \o "/" \o v.target.arch

SymbolsDirOf(n, v) ==
  images[n].symbolsDir \o "/" \o v.target.os \o "/" \o images[n].installDir \o "/"
    \o v.target.arch

\* The rule of a variant was generated.
Generated(n, v) == Requested(n, v.target.os) /\ ~ImportFails(n)

\* C27: a variant whose rule was generated has as install targets exactly
\* the .art and .oat files of its output directory (installs, also the
\* installs of its rule), the .vdex files (vdexInstalls) and the .oat files
\* of the symbols directory (unstrippedInstalls), each installed with the
\* same base name under the directory of imagePathOnDevice; the files are
\* one per extension per library in library order, those of the first
\* library only for a single-image config.
C27_InstallTargets ==
  \A n \in BuildImageNames : \A i \in 1..Len(images[n].variants) :
    LET v == images[n].variants[i]
    IN Generated(n, v) =>
         /\ v.installs = InstallTargets(n, v, OutputDirOf(n, v), <<".art", ".oat">>)
         /\ v.vdexInstalls = InstallTargets(n, v, OutputDirOf(n, v), <<".vdex">>)
         /\ v.unstrippedInstalls = InstallTargets(n, v, SymbolsDirOf(n, v), <<".oat">>)
         /\ \A k \in CompileRulesFor(v) : rules[k].installs = v.installs

\* The arm64 variant of a framework image of two libraries was generated:
\* four install targets, two vdex targets and two unstripped targets.
C27_Witness ==
  /\ <<"android", "boot">> \in built
  /\ ~ImportFails("boot")
  /\ ~images["boot"].singleImage
  /\ Len(images["boot"].modules) = 2
  /\ \E i \in 1..Len(images["boot"].variants) :
       LET v == images["boot"].variants[i]
       IN /\ v.target = [os |-> "android", arch |-> "arm64"]
          /\ v.installs =
               <<[from |-> "out/boot/android/system/framework/arm64/boot-framework.art",
                  to |-> "/system/framework/arm64/boot-framework.art"],
                 [from |-> "out/boot/android/system/framework/arm64/boot-framework.oat",
                  to |-> "/system/framework/arm64/boot-framework.oat"],
                 [from |-> "out/boot/android/system/framework/arm64/boot-ext.art",
                  to |-> "/system/framework/arm64/boot-ext.art"],
                 [from |-> "out/boot/android/system/framework/arm64/boot-ext.oat",
                  to |-> "/system/framework/arm64/boot-ext.oat"]>>
          /\ Len(v.vdexInstalls) = 2
          /\ Len(v.unstrippedInstalls) = 2

\* The install-rule fields of a variant, as constructed and as generated.
InstallFields(v) ==
  <<v.installs, v.vdexInstalls, v.unstrippedInstalls, v.licenseMetadataFile>>

EmptyInstallFields == <<<<>>, <<>>, <<>>, NilPath>>

GeneratedInstallFields(n, v) ==
  <<InstallTargets(n, v, OutputDirOf(n, v), <<".art", ".oat">>),
    InstallTargets(n, v, OutputDirOf(n, v), <<".vdex">>),
    InstallTargets(n, v, SymbolsDirOf(n, v), <<".oat">>),
    IF global.isActiveModule THEN global.LicenseMetadataFile ELSE NilPath>>

\* A list of install targets as "from:to" pairs separated by spaces.
RECURSIVE TargetsFrom(_, _)
TargetsFrom(list, k) ==
  IF k > Len(list) THEN ""
  ELSE list[k].from \o ":" \o list[k].to
         \o (IF k < Len(list) THEN " " ELSE "") \o TargetsFrom(list, k + 1)

\* The values a list of exported variables has under a name.
ValuesIn(exported, name) ==
  { exported[j].value : j \in { k \in 1..Len(exported) : exported[k].name = name } }

\* The suffix of the variables exported for a variant.
VariantSuffix(n, v) ==
  n \o (IF v.target.os # "android" THEN "_host" ELSE "") \o "_" \o v.target.arch

\* What a MakeVars run in the current state owes for a variant: the three
\* lists of its fields as they stand, empty strings before its rule was
\* generated.
ExportsFields(exported, n, v) ==
  LET owed == IF Generated(n, v) THEN GeneratedInstallFields(n, v) ELSE EmptyInstallFields
      sfx == VariantSuffix(n, v)
  IN /\ ValuesIn(exported, "DEXPREOPT_IMAGE_BUILT_INSTALLED_" \o sfx)
          = {TargetsFrom(owed[1], 1)}
     /\ ValuesIn(exported, "DEXPREOPT_IMAGE_VDEX_BUILT_INSTALLED_" \o sfx)
          = {TargetsFrom(owed[2], 1)}
     /\ ValuesIn(exported, "DEXPREOPT_IMAGE_UNSTRIPPED_BUILT_INSTALLED_" \o sfx)
          = {TargetsFrom(owed[3], 1)}

\* C25: installs, vdexInstalls, unstrippedInstalls and licenseMetadataFile
\* of a variant are empty from construction until the rule of that variant
\* was generated and hold the generated values from then on; they change
\* only in a step that builds the variant's image for the variant's OS
\* without a profile-import error; MakeVars can run at any point of rule
\* generation, and exports for every variant of the exported images the
\* three lists as they stand: empty values for a variant whose rule was not
\* generated yet, the generated lists for one whose rule was.
C25_InstallFieldsAndExport ==
  /\ [](\A n \in BuildImageNames : \A i \in 1..Len(images[n].variants) :
          LET v == images[n].variants[i]
          IN InstallFields(v) = IF Generated(n, v) THEN GeneratedInstallFields(n, v)
                                ELSE EmptyInstallFields)
  /\ [][/\ \A n \in BuildImageNames : \A i \in 1..Len(images[n].variants) :
             InstallFields(images'[n].variants[i]) # InstallFields(images[n].variants[i])
               => /\ OsBuilt(n) = images[n].variants[i].target.os
                  /\ ~ImportFails(n)
        /\ (makeVars = <<>> /\ makeVars' # <<>>) =>
             \A n \in BuildImageNames : \A i \in 1..Len(images[n].variants) :
               ExportsFields(makeVars', n, images[n].variants[i])]_vars

\* MakeVars ran after the Android variants of the framework image were
\* generated and before its host variant was: the arm64 value is the
\* generated list and the host value is empty; the host variant was
\* generated afterwards and holds its list.
C25_Witness ==
  /\ <<"android", "boot">> \in built
  /\ <<"host", "boot">> \in built
  /\ ~ImportFails("boot")
  /\ Len(images["boot"].modules) = 1
  /\ ValuesIn(makeVars, "DEXPREOPT_IMAGE_BUILT_INSTALLED_boot_arm64") =
       {"out/boot/android/system/framework/arm64/boot-framework.art:/system/framework/arm64/boot-framework.art out/boot/android/system/framework/arm64/boot-framework.oat:/system/framework/arm64/boot-framework.oat"}
  /\ ValuesIn(makeVars, "DEXPREOPT_IMAGE_BUILT_INSTALLED_boot_host_x86_64") = {""}
  /\ ValuesIn(makeVars, "DEXPREOPT_IMAGE_VDEX_BUILT_INSTALLED_boot_host_x86_64") = {""}
  /\ ValuesIn(makeVars, "DEXPREOPT_IMAGE_UNSTRIPPED_BUILT_INSTALLED_boot_host_x86_64") = {""}
  /\ \E v \in VariantsOf("boot") :
       /\ v.target.os = BuildOS
       /\ v.installs # <<>>

\* The AE flag: the SDCLANG_AE_FLAG of the AE config document, empty when
\* SDCLANG_AE_CONFIG names no readable file or the document has no such key.
SdAEFile == Open(env["SDCLANG_AE_CONFIG"])

SdAEFlag ==
  IF SdAEFile.kind = "json" /\ IsObj(SdAEFile.value)
       /\ "SDCLANG_AE_FLAG" \in DOMAIN SdAEFile.value.obj
  THEN SdAEFile.value.obj["SDCLANG_AE_FLAG"].str
  ELSE ""

\* SDCLANG_SA_ENABLED parses as a true boolean.
SdAnalysisOn == env["SDCLANG_SA_ENABLED"] \in {"1", "t", "T", "TRUE", "true", "True"}

SdAnalysisFragment == "--compile-and-analyze llvmsa"

\* The SDClangFlags value owed when the vendor flags are the layered
\* SDCLANG_FLAGS followed, if withFragment, by a space and the fragment.
SdFlagsOwed(withFragment) ==
  IF env["SDCLANG_COMMON_FLAGS"] # "" THEN env["SDCLANG_COMMON_FLAGS"]
  ELSE SdAEFlag \o " " \o SdLayered("SDCLANG_FLAGS", JStr("")).str
         \o (IF withFragment THEN " " \o SdAnalysisFragment ELSE "")

\* C26 as stated: SDClangFlags is SDCLANG_COMMON_FLAGS when that is not
\* empty, otherwise the AE flag, a space and the vendor flags (SDCLANG_FLAGS
\* of the product block if it has one, else of the default block), and the
\* vendor flags end with '--compile-and-analyze llvmsa' exactly when
\* SDCLANG_SA_ENABLED parses as true.
C26_Original ==
  vals["SDClangFlags"] # None => vals["SDClangFlags"] = SdFlagsOwed(SdAnalysisOn)

\* C26 amended: as stated, except that the fragment is added only when the
\* vendor config file was opened and decoded; when the file cannot be
\* opened the vendor flags are empty whatever SDCLANG_SA_ENABLED holds.
C26_SDClangFlags ==
  vals["SDClangFlags"] # None =>
    /\ vals["SDClangFlags"] = SdFlagsOwed(SdAnalysisOn /\ SdHasObject)
    /\ ~SdHasObject => sdclangFlags = ""

\* SDClangFlags was evaluated without SDCLANG_COMMON_FLAGS and with the
\* analysis enabled: the AE flag, the product block's flags in place of the
\* default block's, and the fragment.
C26_Witness ==
  /\ vals["SDClangFlags"] = "-ae -p --compile-and-analyze llvmsa"
  /\ env["SDCLANG_COMMON_FLAGS"] = ""
  /\ env["SDCLANG_SA_ENABLED"] = "true"
  /\ SdHasProduct
  /\ SdHasDefault
  /\ "SDCLANG_FLAGS" \in DOMAIN SdDefault
  /\ "SDCLANG_FLAGS" \in DOMAIN SdProduct

\* C28: every evaluation of the CommonGlobalCflags, DeviceGlobalCflags and
\* NoOverrideGlobalCflags funcs, in any order and number and under every
\* environment, leaves the elements and the length of commonGlobalCflags,
\* deviceGlobalCflags and noOverrideGlobalCflags as they were, and returns
\* the string an earlier evaluation of the same func returned under the
\* same environment; deviceGlobalLdflags holds its literal after
\* deviceGlobalLldflags was built from it by append.
C28_TablesImmutable ==
  /\ [](/\ SliceSeq(deviceGlobalLdflags) = deviceGlobalLdflagsTable
        /\ deviceGlobalLdflags.len = Len(deviceGlobalLdflagsTable)
        /\ SliceSeq(deviceGlobalLldflags)
             = deviceGlobalLdflagsTable \o commonGlobalLldflagsTable)
  /\ [][/\ SliceSeq(commonGlobalCflags') = SliceSeq(commonGlobalCflags)
        /\ commonGlobalCflags'.len = commonGlobalCflags.len
        /\ SliceSeq(deviceGlobalCflags') = SliceSeq(deviceGlobalCflags)
        /\ deviceGlobalCflags'.len = deviceGlobalCflags.len
        /\ SliceSeq(noOverrideGlobalCflags') = SliceSeq(noOverrideGlobalCflags)
        /\ noOverrideGlobalCflags'.len = noOverrideGlobalCflags.len
        /\ \A f \in FlagFuncNames : vals[f] # None => vals'[f] = vals[f]]_vars

\* All three funcs were evaluated on linux with LLVM_NEXT and USE_CCACHE
\* set, and the appends of CommonGlobalCflags wrote into the spare capacity
\* behind commonGlobalCflags, whose elements are still the table's.
C28_Witness ==
  /\ goos = "linux"
  /\ env["LLVM_NEXT"] = "true"
  /\ env["USE_CCACHE"] = "true"
  /\ \A f \in FlagFuncNames : vals[f] # None
  /\ Len(commonGlobalCflags.arr) >= commonGlobalCflags.len + 2
  /\ commonGlobalCflags.arr[commonGlobalCflags.len + 1] = AutoInitFlag
  /\ commonGlobalCflags.arr[commonGlobalCflags.len + 2] = "-Wno-unused-command-line-argument"
  /\ SliceSeq(commonGlobalCflags) = CommonFlagTable
  /\ SliceSeq(deviceGlobalLdflags) = deviceGlobalLdflagsTable
  /\ Len(deviceGlobalLldflags.arr) > deviceGlobalLldflags.len

====
